---- MODULE Spec2Model ----
(***************************************************************************)
(* Backtest core of the short "pump then stall" strategy:                  *)
(*   backtest/backtester.py        Backtester (sequential run, worker)     *)
(*   backtest/strategy_engine.py   StrategyEngine (detector, watchlist)    *)
(*   backtest/position_manager.py  PositionManager (fills, PnL)            *)
(*   backtest/portfolio.py         Portfolio (capital ledger, snapshots)   *)
(*   live/risk_manager.py          RiskManager (position multiplier)       *)
(*                                                                         *)
(* Numbers.  Every float of the program is a fixed-point integer with      *)
(* 1.0 written as Scale (1e-4 units): prices, USDT amounts, rates and      *)
(* fractions alike.  Percent values (pnl_percent, pump_percent*100) are    *)
(* percent times Scale.  Products and quotients go through MulDiv, which   *)
(* rounds toward minus infinity; the price levels of the model are chosen  *)
(* so that every value a run computes is exact.                            *)
(* A candle's timestamp is its index.  None is the empty sequence and a    *)
(* set Optional value v is <<v>>.                                          *)
(***************************************************************************)
EXTENDS Integers, Sequences, FiniteSets, TLC

Scale == 100 * 100

\* ---------------------------------------------------------------- bounds
\* Symbols of market_data, processed in this order.
MaxSymbols == 2
\* Bars the loops of one whole run process, all symbols together.
MaxBars == 4
\* on_trade_result calls explored when the RiskManager is driven directly.
MaxResults == 4
\* Values of the random part (uuid4) of a trade id.
MaxUuid == 2
\* Longest lookback window the detectors are probed with.
MaxWindow == 2
MaxProbeBars == 2

\* ------------------------------------------------- configuration (inputs)
\* StrategyConfig fields.  pump_window and watchlist_timeout are a
\* configuration shortened from the default 96 bars so that MaxBars bars
\* show a pump, a stall, a timeout and a re-detection; the rest are the
\* defaults of backtest/config.py.
pump_window == 1
watchlist_timeout == 3
stall_bars == 2
pump_threshold == 2000
tp_percent == 1500
sl_multiplier == 20000
trade_size_usdt == 200000
initial_capital == 10000000
taker_fee == 6
slippage == 5

\* RiskManager.on_trade_result keeps the last HistoryCap results.
HistoryCap == 1000

\* ------------------------------------------------------------ arithmetic
None == <<>>
Some(v) == <<v>>
IsNone(o) == o = <<>>
Val(o) == o[1]
\* Python truthiness of an Optional number: "x if x else 0".
OrZero(o) == IF IsNone(o) THEN 0 ELSE Val(o)

Abs(x) == IF x < 0 THEN -x ELSE x

RECURSIVE GCD(_, _)
GCD(a, b) == IF b = 0 THEN Abs(a) ELSE GCD(b, a % Abs(b))

\* floor(a / b) for b # 0 of either sign.
FloorDiv(a, b) == IF b > 0 THEN a \div b ELSE (-a) \div (-b)

\* floor(a * b / c), c # 0, with the common factors taken out first so that
\* no intermediate product leaves the 32-bit range.
MulDiv(a, b, c) ==
    LET g1 == GCD(a, c)
        a1 == IF g1 = 0 THEN a ELSE a \div g1
        c1 == IF g1 = 0 THEN c ELSE FloorDiv(c, g1)
        g2 == GCD(b, c1)
        b1 == IF g2 = 0 THEN b ELSE b \div g2
        c2 == IF g2 = 0 THEN c1 ELSE FloorDiv(c1, g2)
    IN  FloorDiv(a1 * b1, c2)

\* x * r for a fixed-point factor r.
Mul(x, r) == MulDiv(x, r, Scale)

Max(a, b) == IF a >= b THEN a ELSE b
Min(a, b) == IF a <= b THEN a ELSE b

\* --------------------------------------------------------------- symbols
Symbols == 1..MaxSymbols

\* Price levels (USDT) of the candles: a pump is 800 -> 1000 (25%), 1000 ->
\* 1200 (20%, the threshold) or -> 2200; the take-profit of local_high 1000
\* is 850 and that of 1200 is 1020; the stop of an entry at 1000 is 2001.
PriceLevels == {800, 1000, 1200, 2200}
Prices == {p * Scale : p \in PriceLevels}
\* Clean candles: low <= close <= high.  open and volume are never read.
Candles == {c \in [high : Prices, low : Prices, close : Prices] :
                c.low <= c.close /\ c.close <= c.high}

\* ----------------------------------------------- live/risk_manager.py
NewStats == [trades |-> 0, profitable |-> 0, total_pnl |-> 0, max_loss |-> 0]

\* RiskManager.__init__
RiskManagerInit(capital) ==
    [initial_capital |-> capital, current_capital |-> capital,
     peak_capital |-> capital, today_pnl |-> 0, consecutive_losses |-> 0,
     coin_stats |-> [s \in Symbols |-> None], trades_history |-> <<>>]

\* Variant for C9: an update_stats that keeps the largest pnl_percent as
\* max_loss instead of the smallest.
update_stats_max(coin_stats, symbol, pnl_percent) ==
    LET old == IF IsNone(coin_stats[symbol]) THEN NewStats
               ELSE Val(coin_stats[symbol])
        new == [old EXCEPT
                  !.trades = @ + 1,
                  !.total_pnl = @ + pnl_percent,
                  !.profitable = IF pnl_percent > 0 THEN @ + 1 ELSE @,
                  !.max_loss = IF pnl_percent > 0 THEN @
                               ELSE Max(@, pnl_percent)]
    IN  [coin_stats EXCEPT ![symbol] = Some(new)]

\* RiskManager.update_stats: the coin_stats after the call.
update_stats(coin_stats, symbol, pnl_percent) ==
    LET old == IF IsNone(coin_stats[symbol]) THEN NewStats
               ELSE Val(coin_stats[symbol])
        new == [old EXCEPT
                  !.trades = @ + 1,
                  !.total_pnl = @ + pnl_percent,
                  !.profitable = IF pnl_percent > 0 THEN @ + 1 ELSE @,
                  !.max_loss = IF pnl_percent > 0 THEN @
                               ELSE Min(@, pnl_percent)]
    IN  [coin_stats EXCEPT ![symbol] = Some(new)]

\* Variant for C25: the test of max_loss ahead of the test of the count.
get_position_multiplier_lossfirst(coin_stats, symbol) ==
    IF IsNone(coin_stats[symbol]) THEN Scale \div 2
    ELSE LET stats == Val(coin_stats[symbol]) IN
         IF stats.max_loss < -200 * Scale THEN Scale \div 4
         ELSE IF stats.trades < 3 THEN Scale \div 2
         ELSE IF MulDiv(stats.profitable, Scale, stats.trades) < 7 * (Scale \div 10)
              THEN Scale \div 2
         ELSE Scale

\* RiskManager.get_position_multiplier (1.0 is Scale).
get_position_multiplier(coin_stats, symbol) ==
    IF IsNone(coin_stats[symbol]) THEN Scale \div 2
    ELSE LET stats == Val(coin_stats[symbol]) IN
         IF stats.trades < 3 THEN Scale \div 2
         ELSE IF stats.max_loss < -200 * Scale THEN Scale \div 4
         ELSE IF MulDiv(stats.profitable, Scale, stats.trades) < 7 * (Scale \div 10)
              THEN Scale \div 2
         ELSE Scale

\* Variant for C33: the list cut to its first records.
LastN_first(seq, k) ==
    IF Len(seq) > k THEN SubSeq(seq, 1, k) ELSE seq

\* The list kept to its last HistoryCap records.
LastN(seq, k) ==
    IF Len(seq) > k THEN SubSeq(seq, Len(seq) - k + 1, Len(seq)) ELSE seq

\* RiskManager.on_trade_result: the RiskManager after the call.  The wall
\* clock time of the history record is left out.
on_trade_result(rm, pnl_usdt, pnl_percent, symbol) ==
    LET cap == rm.current_capital + pnl_usdt IN
    [rm EXCEPT
       !.current_capital = cap,
       !.today_pnl = @ + pnl_usdt,
       !.peak_capital = IF cap > @ THEN cap ELSE @,
       !.consecutive_losses = IF pnl_usdt < 0 THEN @ + 1 ELSE 0,
       !.coin_stats = update_stats(@, symbol, pnl_percent),
       !.trades_history =
           LastN(Append(@, [symbol |-> symbol, pnl_usdt |-> pnl_usdt,
                            pnl_percent |-> pnl_percent]), HistoryCap)]

\* ---------------------------------------------------- bot.py, RiskManager
\* RiskManager.__init__ of bot.py: the same fields as the class of
\* live/risk_manager.py.
BotRiskManagerInit(capital) ==
    [initial_capital |-> capital, current_capital |-> capital,
     peak_capital |-> capital, today_pnl |-> 0, consecutive_losses |-> 0,
     coin_stats |-> [s \in Symbols |-> None], trades_history |-> <<>>]

\* RiskManager.update_stats of bot.py.
bot_update_stats(coin_stats, symbol, pnl_percent) ==
    LET old == IF IsNone(coin_stats[symbol]) THEN NewStats
               ELSE Val(coin_stats[symbol])
        new == [old EXCEPT
                  !.trades = @ + 1,
                  !.total_pnl = @ + pnl_percent,
                  !.profitable = IF pnl_percent > 0 THEN @ + 1 ELSE @,
                  !.max_loss = IF pnl_percent > 0 THEN @
                               ELSE Min(@, pnl_percent)]
    IN  [coin_stats EXCEPT ![symbol] = Some(new)]

\* Variant for C14: a quarter size from a loss of exactly -200% on.
bot_get_position_multiplier_from200(coin_stats, symbol) ==
    IF IsNone(coin_stats[symbol]) THEN Scale \div 2
    ELSE LET stats == Val(coin_stats[symbol]) IN
         IF stats.trades < 3 THEN Scale \div 2
         ELSE IF stats.max_loss <= -200 * Scale THEN Scale \div 4
         ELSE IF MulDiv(stats.profitable, Scale, stats.trades) < 7 * (Scale \div 10)
              THEN Scale \div 2
         ELSE Scale

\* RiskManager.get_position_multiplier of bot.py.
bot_get_position_multiplier(coin_stats, symbol) ==
    IF IsNone(coin_stats[symbol]) THEN Scale \div 2
    ELSE LET stats == Val(coin_stats[symbol]) IN
         IF stats.trades < 3 THEN Scale \div 2
         ELSE IF stats.max_loss < -200 * Scale THEN Scale \div 4
         ELSE IF MulDiv(stats.profitable, Scale, stats.trades) < 7 * (Scale \div 10)
              THEN Scale \div 2
         ELSE Scale

\* RiskManager.on_trade_result of bot.py: it keeps no trades_history.
bot_on_trade_result(rm, pnl_usdt, pnl_percent, symbol) ==
    LET cap == rm.current_capital + pnl_usdt IN
    [rm EXCEPT
       !.current_capital = cap,
       !.today_pnl = @ + pnl_usdt,
       !.peak_capital = IF cap > @ THEN cap ELSE @,
       !.consecutive_losses = IF pnl_usdt < 0 THEN @ + 1 ELSE 0,
       !.coin_stats = bot_update_stats(@, symbol, pnl_percent)]

\* ------------------------------------------ backtest/strategy_engine.py,
\* ------------------------------------------ backtest/backtester.py: detector
\* dataclass WatchlistItem.
WatchlistItem(symbol, pump_start_idx, pump_end_idx, local_high, local_high_idx, pump_price_start, pump_percent, added_time_idx) ==
    [symbol |-> symbol, pump_start_idx |-> pump_start_idx,
     pump_end_idx |-> pump_end_idx, local_high |-> local_high,
     local_high_idx |-> local_high_idx, pump_price_start |-> pump_price_start,
     pump_percent |-> pump_percent, added_time_idx |-> added_time_idx,
     last_high_update_idx |-> added_time_idx, stall_counter |-> 0,
     active |-> TRUE]

\* The loop of detect_pump_numba: the running maximum of high[i..idx], a
\* later bar replacing it only when strictly higher.
RECURSIVE MaxScan(_, _, _, _, _)
MaxScan(high, i, idx, max_price, max_idx) ==
    IF i > idx THEN <<max_price, max_idx>>
    ELSE IF high[i] > max_price THEN MaxScan(high, i + 1, idx, high[i], i)
    ELSE MaxScan(high, i + 1, idx, max_price, max_idx)

\* Backtester.detect_pump_numba: <<max_price, max_idx, pump_percent>>, with
\* max_idx = -1 for no pump.
detect_pump_numba(high, close, idx, window, threshold) ==
    LET start_idx == idx - window
        m == MaxScan(high, start_idx + 1, idx, high[start_idx], start_idx)
        start_price == close[start_idx]
        pump_percent == MulDiv(m[1] - start_price, Scale, start_price)
    IN  IF start_price = 0 THEN <<0, -1, 0>>
        ELSE IF pump_percent >= threshold THEN <<m[1], m[2], pump_percent>>
        ELSE <<0, -1, 0>>

\* Backtester.scan_for_pumps_numba: None or the WatchlistItem.
scan_for_pumps_numba(symbol, high, close, idx, window, threshold) ==
    LET r == detect_pump_numba(high, close, idx, window, threshold) IN
    IF r[2] = -1 THEN None
    ELSE Some(WatchlistItem(symbol, idx - window, idx, r[1], r[2],
                            close[idx - window], r[3] * 100, idx))

\* A float64 infinity: above every finite value of the model.
Infinity == Scale * 200000

\* numpy float64 division x / y: no exception on y = 0 but inf, -inf or nan.
\* <<"num", q>>, <<"inf", sign>> or <<"nan", 0>>.
FloatDiv(x, y) ==
    IF y # 0 THEN <<"num", MulDiv(x, Scale, y)>>
    ELSE IF x > 0 THEN <<"inf", 1>>
    ELSE IF x < 0 THEN <<"inf", -1>>
    ELSE <<"nan", 0>>

\* q >= t for a float q: false for nan.
FloatGeq(q, t) ==
    CASE q[1] = "num" -> q[2] >= t
      [] q[1] = "inf" -> q[2] > 0
      [] OTHER -> FALSE

FloatTimes100(q) ==
    CASE q[1] = "num" -> q[2] * 100
      [] q[1] = "inf" -> q[2] * Infinity
      [] OTHER -> 0

\* window['high'].idxmax(): the first label of the maximum.
IdxMax(high, lo, hi) ==
    CHOOSE i \in lo..hi :
        /\ \A j \in lo..hi : high[j] <= high[i]
        /\ \A j \in lo..(i - 1) : high[j] < high[i]

\* StrategyEngine.scan_for_pumps: None or the WatchlistItem.  window and
\* threshold are self.config.pump_window and self.config.pump_threshold.
scan_for_pumps(symbol, high, close, current_idx, window, threshold) ==
    IF current_idx < window THEN None
    ELSE LET start_idx == current_idx - window
             start_price == close[start_idx]
             max_idx == IdxMax(high, start_idx, current_idx)
             max_price == high[max_idx]
             pump_percent == FloatDiv(max_price - start_price, start_price)
         IN  IF FloatGeq(pump_percent, threshold)
             THEN Some(WatchlistItem(symbol, start_idx, current_idx, max_price,
                                     max_idx, start_price,
                                     FloatTimes100(pump_percent), current_idx))
             ELSE None

\* StrategyEngine.add_to_watchlist: the watchlist after the call.
add_to_watchlist(watchlist, item) ==
    [watchlist EXCEPT ![item.symbol] = Some(item)]

\* The symbols that have an entry in a dict (an Optional per symbol or a
\* reference per symbol, 0 for none), in increasing order.  A run holds one
\* symbol's key at most, so the iteration order of the dict does not show.
RECURSIVE KeysFrom(_, _, _)
KeysFrom(present, s, last) ==
    IF s > last THEN <<>>
    ELSE IF present[s] THEN <<s>> \o KeysFrom(present, s + 1, last)
    ELSE KeysFrom(present, s + 1, last)

WatchlistKeys(watchlist) ==
    KeysFrom([s \in Symbols |-> ~IsNone(watchlist[s])], 1, MaxSymbols)

\* Variant for C7: an update that does not count the bar of the add as a
\* stall bar.
UpdateItem_skipadd(item, candle, current_idx) ==
    IF candle.high > item.local_high
    THEN [item EXCEPT !.local_high = candle.high,
                      !.local_high_idx = current_idx,
                      !.last_high_update_idx = current_idx,
                      !.stall_counter = 0]
    ELSE IF current_idx = item.added_time_idx THEN item
    ELSE [item EXCEPT !.stall_counter = @ + 1]

\* StrategyEngine.update_watchlist, the body for one item that has not
\* timed out: the item after the high update or the stall increment.
UpdateItem(item, candle, current_idx) ==
    IF candle.high > item.local_high
    THEN [item EXCEPT !.local_high = candle.high,
                      !.local_high_idx = current_idx,
                      !.last_high_update_idx = current_idx,
                      !.stall_counter = 0]
    ELSE [item EXCEPT !.stall_counter = @ + 1]

RECURSIVE UpdateLoop(_, _, _, _, _)
\* Variant for C22: a timeout test with > in place of >=.
UpdateLoop_gt(keys, watchlist, ready, candle, current_idx) ==
    IF keys = <<>> THEN [watchlist |-> watchlist, ready |-> ready]
    ELSE LET symbol == Head(keys)
             item == Val(watchlist[symbol])
             new == UpdateItem(item, candle, current_idx)
         IN  IF current_idx - item.added_time_idx > watchlist_timeout
             THEN UpdateLoop(Tail(keys), [watchlist EXCEPT ![symbol] = None],
                             ready, candle, current_idx)
             ELSE UpdateLoop(Tail(keys),
                             [watchlist EXCEPT ![symbol] = Some(new)],
                             IF new.stall_counter >= stall_bars
                             THEN Append(ready, new) ELSE ready,
                             candle, current_idx)

UpdateLoop(keys, watchlist, ready, candle, current_idx) ==
    IF keys = <<>> THEN [watchlist |-> watchlist, ready |-> ready]
    ELSE LET symbol == Head(keys)
             item == Val(watchlist[symbol])
             new == UpdateItem(item, candle, current_idx)
         IN  IF current_idx - item.added_time_idx >= watchlist_timeout
             THEN UpdateLoop(Tail(keys), [watchlist EXCEPT ![symbol] = None],
                             ready, candle, current_idx)
             ELSE UpdateLoop(Tail(keys),
                             [watchlist EXCEPT ![symbol] = Some(new)],
                             IF new.stall_counter >= stall_bars
                             THEN Append(ready, new) ELSE ready,
                             candle, current_idx)

\* StrategyEngine.update_watchlist: the watchlist after the call and the
\* returned ready_for_entry list.
update_watchlist(watchlist, candle, current_idx) ==
    UpdateLoop(WatchlistKeys(watchlist), watchlist, <<>>, candle, current_idx)

\* dataclass Trade as check_entry_conditions constructs it.  mfe and mae,
\* which calculate_metrics writes at the close and nothing reads, are left
\* out.
Trade(symbol, trade_id, current_idx, entry_price, entry_fee, item, tp_price, sl_price) ==
    [symbol |-> symbol, trade_id |-> trade_id,
     entry_time |-> current_idx, entry_idx |-> current_idx,
     entry_price |-> entry_price, entry_fee |-> entry_fee,
     slippage_entry |-> slippage,
     local_high |-> item.local_high,
     pump_start_time |-> item.pump_start_idx,
     pump_end_time |-> item.pump_end_idx,
     pump_percent |-> item.pump_percent,
     tp_price |-> tp_price, sl_price |-> sl_price,
     position_size |-> 0,
     exit_time |-> None, exit_idx |-> None, exit_price |-> None,
     exit_fee |-> None, slippage_exit |-> None, exit_reason |-> None,
     pnl_usdt |-> None, pnl_percent |-> None, funding_paid |-> 0,
     fees_total |-> None, slippage_total |-> None,
     duration_bars |-> None, duration_minutes |-> None]

\* tp_price = local_high * (1 - tp_percent)
TpPrice(local_high) == Mul(local_high, Scale - tp_percent)

\* Variant for C4: check_entry_conditions without the test for a resident
\* position of the symbol.
check_entry_conditions_any(item, candle, current_idx, positions, watchlist, uuid) ==
    LET tp_price == Mul(item.local_high, Scale - tp_percent)
        entry_price == Mul(candle.close, Scale + slippage)
        sl_price == Mul(entry_price, sl_multiplier)
    IN  IF candle.close <= tp_price
        THEN [trade |-> None, watchlist |-> watchlist]
        ELSE [trade |-> Some(Trade(item.symbol,
                                   <<item.symbol, current_idx, uuid>>,
                                   current_idx, entry_price,
                                   Mul(trade_size_usdt, taker_fee),
                                   item, tp_price, sl_price)),
              watchlist |-> [watchlist EXCEPT ![item.symbol] = None]]

\* Variant for C23: check_entry_conditions without the test of the close
\* against the take profit.
check_entry_conditions_notp(item, candle, current_idx, positions, watchlist, uuid) ==
    LET tp_price == TpPrice(item.local_high)
        entry_price == Mul(candle.close, Scale + slippage)
        sl_price == Mul(entry_price, sl_multiplier)
    IN  IF positions[item.symbol] # 0
        THEN [trade |-> None, watchlist |-> watchlist]
        ELSE [trade |-> Some(Trade(item.symbol,
                                   <<item.symbol, current_idx, uuid>>,
                                   current_idx, entry_price,
                                   Mul(trade_size_usdt, taker_fee),
                                   item, tp_price, sl_price)),
              watchlist |-> [watchlist EXCEPT ![item.symbol] = None]]

\* Variant for C36: a stop at entry_price / sl_multiplier.
check_entry_conditions_sldiv(item, candle, current_idx, positions, watchlist, uuid) ==
    LET tp_price == TpPrice(item.local_high)
        entry_price == Mul(candle.close, Scale + slippage)
        sl_price == MulDiv(entry_price, Scale, sl_multiplier)
    IN  IF positions[item.symbol] # 0
        THEN [trade |-> None, watchlist |-> watchlist]
        ELSE IF candle.close <= tp_price
        THEN [trade |-> None, watchlist |-> watchlist]
        ELSE [trade |-> Some(Trade(item.symbol,
                                   <<item.symbol, current_idx, uuid>>,
                                   current_idx, entry_price,
                                   Mul(trade_size_usdt, taker_fee),
                                   item, tp_price, sl_price)),
              watchlist |-> [watchlist EXCEPT ![item.symbol] = None]]

\* StrategyEngine.check_entry_conditions: the constructed Trade (or None)
\* and the watchlist after the call.  uuid is the random part of trade_id.
check_entry_conditions(item, candle, current_idx, positions, watchlist, uuid) ==
    LET tp_price == TpPrice(item.local_high)
        entry_price == Mul(candle.close, Scale + slippage)
        sl_price == Mul(entry_price, sl_multiplier)
    IN  IF positions[item.symbol] # 0
        THEN [trade |-> None, watchlist |-> watchlist]
        ELSE IF candle.close <= tp_price
        THEN [trade |-> None, watchlist |-> watchlist]
        ELSE [trade |-> Some(Trade(item.symbol,
                                   <<item.symbol, current_idx, uuid>>,
                                   current_idx, entry_price,
                                   Mul(trade_size_usdt, taker_fee),
                                   item, tp_price, sl_price)),
              watchlist |-> [watchlist EXCEPT ![item.symbol] = None]]

\* ------------------------------------------ backtest/position_manager.py
\* Trade objects live in a store (a sequence); positions, portfolio.trades,
\* symbol_trades and all_trades hold references (indices) into it, as the
\* Python lists and the dict hold references to the same objects.
PositionKeys(positions) ==
    KeysFrom([s \in Symbols |-> positions[s] # 0], 1, MaxSymbols)

\* x * (1 + slippage)
WithSlippage(x) == Mul(x, Scale + slippage)

\* Variant for C15: a close that records the exit but not its time.
ClosedTrade_notime(trade, idx, exit_price, reason) ==
    [trade EXCEPT
       !.exit_idx = Some(idx), !.exit_price = Some(exit_price),
       !.exit_reason = Some(reason), !.pnl_usdt = Some(0),
       !.pnl_percent = Some(0)]

\* Variant for C27: a close that counts the entry fee alone.
ClosedTrade_onefee(trade, idx, exit_price, reason) ==
    LET position_size == IF trade.position_size = 0 THEN trade_size_usdt
                         ELSE trade.position_size
        entry_fee == Mul(position_size, taker_fee)
        exit_fee == Mul(position_size, taker_fee)
        fees_total == entry_fee
        slippage_total == trade.slippage_entry + slippage
        price_diff == trade.entry_price - exit_price
        pnl_usdt == MulDiv(price_diff, position_size, trade.entry_price)
                        - fees_total - slippage_total
        pnl_percent == MulDiv(pnl_usdt, 100 * Scale, position_size)
        duration_bars == idx - trade.entry_idx
    IN  [trade EXCEPT
           !.exit_time = Some(idx), !.exit_idx = Some(idx),
           !.exit_price = Some(exit_price), !.exit_reason = Some(reason),
           !.slippage_exit = Some(slippage),
           !.position_size = position_size,
           !.entry_fee = entry_fee, !.exit_fee = Some(exit_fee),
           !.fees_total = Some(fees_total),
           !.slippage_total = Some(slippage_total),
           !.pnl_usdt = Some(pnl_usdt), !.pnl_percent = Some(pnl_percent),
           !.duration_bars = Some(duration_bars),
           !.duration_minutes = Some(duration_bars * 15)]

\* PositionManager.close_position, the fields it writes on the resident
\* Trade of the symbol.
ClosedTrade(trade, idx, exit_price, reason) ==
    LET position_size == IF trade.position_size = 0 THEN trade_size_usdt
                         ELSE trade.position_size
        entry_fee == Mul(position_size, taker_fee)
        exit_fee == Mul(position_size, taker_fee)
        fees_total == entry_fee + exit_fee
        slippage_total == trade.slippage_entry + slippage
        price_diff == trade.entry_price - exit_price
        pnl_usdt == MulDiv(price_diff, position_size, trade.entry_price)
                        - fees_total - slippage_total
        pnl_percent == MulDiv(pnl_usdt, 100 * Scale, position_size)
        duration_bars == idx - trade.entry_idx
    IN  [trade EXCEPT
           !.exit_time = Some(idx), !.exit_idx = Some(idx),
           !.exit_price = Some(exit_price), !.exit_reason = Some(reason),
           !.slippage_exit = Some(slippage),
           !.position_size = position_size,
           !.entry_fee = entry_fee, !.exit_fee = Some(exit_fee),
           !.fees_total = Some(fees_total),
           !.slippage_total = Some(slippage_total),
           !.pnl_usdt = Some(pnl_usdt), !.pnl_percent = Some(pnl_percent),
           !.duration_bars = Some(duration_bars),
           !.duration_minutes = Some(duration_bars * 15)]

\* PositionManager.close_position: does nothing unless the symbol has a
\* resident position; else closes that Trade and deletes the key.
close_position(positions, trades, symbol, idx, exit_price, reason) ==
    IF positions[symbol] = 0
    THEN [positions |-> positions, trades |-> trades]
    ELSE [positions |-> [positions EXCEPT ![symbol] = 0],
          trades |-> [trades EXCEPT ![positions[symbol]] =
                          ClosedTrade(@, idx, exit_price, reason)]]

\* Variant for C26: the base size whatever the multiplier.
get_position_size_base(rm, symbol) ==
    trade_size_usdt

\* PositionManager.get_position_size
get_position_size(rm, symbol) ==
    Mul(trade_size_usdt, get_position_multiplier(rm.coin_stats, symbol))

\* Variant for C35: a report that passes the percentage as the amount.
ReportResult_percent(rm, trades, ref) ==
    on_trade_result(rm, OrZero(trades[ref].pnl_percent),
                    OrZero(trades[ref].pnl_percent), trades[ref].symbol)

\* The on_trade_result call that follows every close_position call: it
\* reads the pnl of `ref` after the call, 0 for an unset one.
ReportResult(rm, trades, ref) ==
    on_trade_result(rm, OrZero(trades[ref].pnl_usdt),
                    OrZero(trades[ref].pnl_percent), trades[ref].symbol)

\* Lines 39-47 and 52-61 of open_position: what it leaves and returns
\* after close_position (result c) on the immediate path.
Rejected(c, rm, ref, reason) ==
    [positions |-> c.positions, trades |-> c.trades,
     rm |-> ReportResult(rm, c.trades, ref),
     success |-> FALSE, reason |-> reason]

\* Variant for C17: an open_position without the take-profit test.
OpenSized_notp(positions, rm, sized, ref, candle, idx) ==
    IF candle.high >= sized[ref].sl_price
    THEN Rejected(close_position(positions, sized, sized[ref].symbol, idx,
                                 WithSlippage(sized[ref].sl_price), "sl"),
                  rm, ref, "sl_immediate")
    ELSE [positions |-> [positions EXCEPT ![sized[ref].symbol] = ref],
          trades |-> sized, rm |-> rm,
          success |-> TRUE, reason |-> "none"]

\* Variant for C37: an open_position that makes every Trade resident.
OpenSized_accept(positions, rm, sized, ref, candle, idx) ==
    [positions |-> [positions EXCEPT ![sized[ref].symbol] = ref],
     trades |-> sized, rm |-> rm,
     success |-> TRUE, reason |-> "none"]

\* Lines 37-63 of open_position, the Trade `ref` of `sized` carrying its
\* position_size and entry_fee.
OpenSized(positions, rm, sized, ref, candle, idx) ==
    IF candle.high >= sized[ref].sl_price
    THEN Rejected(close_position(positions, sized, sized[ref].symbol, idx,
                                 WithSlippage(sized[ref].sl_price), "sl"),
                  rm, ref, "sl_immediate")
    ELSE IF candle.low <= sized[ref].tp_price
    THEN Rejected(close_position(positions, sized, sized[ref].symbol, idx,
                                 WithSlippage(sized[ref].tp_price), "tp"),
                  rm, ref, "tp_immediate")
    ELSE [positions |-> [positions EXCEPT ![sized[ref].symbol] = ref],
          trades |-> sized, rm |-> rm,
          success |-> TRUE, reason |-> "none"]

\* Lines 32-34 of open_position.
Sized(trades, ref, size) ==
    [trades EXCEPT ![ref].position_size = size,
                   ![ref].entry_fee = Mul(size, taker_fee)]

\* PositionManager.open_position for the Trade `ref`: positions, trades and
\* risk_manager after the call, and the returned pair.
open_position(positions, rm, trades, ref, candle, idx) ==
    OpenSized(positions, rm,
              Sized(trades, ref, get_position_size(rm, trades[ref].symbol)),
              ref, candle, idx)

\* PositionManager.check_positions, one resident position after the
\* other: SL before TP.  closed is the returned dict, as <<symbol, reason>>
\* pairs in insertion order.
RECURSIVE CheckLoop(_, _, _, _, _, _, _)
\* Lines 74-87 and 89-101: the loop goes on after close_position (result
\* c) and on_trade_result for the Trade `ref`.
CheckClosed(keys, c, rm, ref, closed, reason, candle, idx) ==
    CheckLoop(Tail(keys), c.positions, ReportResult(rm, c.trades, ref),
              c.trades, Append(closed, <<Head(keys), reason>>), candle, idx)

\* Variant for C19: a check_positions that fills at the level itself,
\* without slippage.
CheckLoop_noslip(keys, positions, rm, trades, closed, candle, idx) ==
    IF keys = <<>>
    THEN [positions |-> positions, rm |-> rm, trades |-> trades,
          closed |-> closed]
    ELSE IF candle.high >= trades[positions[Head(keys)]].sl_price
    THEN CheckClosed(keys,
             close_position(positions, trades, Head(keys), idx,
                 trades[positions[Head(keys)]].sl_price, "sl"),
             rm, positions[Head(keys)], closed, "sl", candle, idx)
    ELSE IF candle.low <= trades[positions[Head(keys)]].tp_price
    THEN CheckClosed(keys,
             close_position(positions, trades, Head(keys), idx,
                 trades[positions[Head(keys)]].tp_price, "tp"),
             rm, positions[Head(keys)], closed, "tp", candle, idx)
    ELSE CheckLoop(Tail(keys), positions, rm, trades, closed, candle, idx)

CheckLoop(keys, positions, rm, trades, closed, candle, idx) ==
    IF keys = <<>>
    THEN [positions |-> positions, rm |-> rm, trades |-> trades,
          closed |-> closed]
    ELSE IF candle.high >= trades[positions[Head(keys)]].sl_price
    THEN CheckClosed(keys,
             close_position(positions, trades, Head(keys), idx,
                 WithSlippage(trades[positions[Head(keys)]].sl_price), "sl"),
             rm, positions[Head(keys)], closed, "sl", candle, idx)
    ELSE IF candle.low <= trades[positions[Head(keys)]].tp_price
    THEN CheckClosed(keys,
             close_position(positions, trades, Head(keys), idx,
                 WithSlippage(trades[positions[Head(keys)]].tp_price), "tp"),
             rm, positions[Head(keys)], closed, "tp", candle, idx)
    ELSE CheckLoop(Tail(keys), positions, rm, trades, closed, candle, idx)

check_positions(positions, rm, trades, candle, idx) ==
    CheckLoop(PositionKeys(positions), positions, rm, trades, <<>>, candle, idx)

\* Variant for C1: a force_close_all that leaves the positions resident.
force_close_all_skip(positions, rm, trades, candle, idx, reason) ==
    [positions |-> positions, rm |-> rm, trades |-> trades,
     closed_trades |-> <<>>]

\* PositionManager.force_close_all: every resident position closed at
\* close * (1 + slippage); closed_trades is the returned list.
RECURSIVE ForceLoop(_, _, _, _, _, _, _, _)
\* Lines 121-128: the loop goes on after close_position (result c) and
\* on_trade_result for the Trade `ref`.
ForceClosed(keys, c, rm, ref, closed_trades, candle, idx, reason) ==
    ForceLoop(Tail(keys), c.positions, ReportResult(rm, c.trades, ref),
              c.trades, Append(closed_trades, ref), candle, idx, reason)

ForceLoop(keys, positions, rm, trades, closed_trades, candle, idx, reason) ==
    IF keys = <<>>
    THEN [positions |-> positions, rm |-> rm, trades |-> trades,
          closed_trades |-> closed_trades]
    ELSE ForceClosed(keys,
             close_position(positions, trades, Head(keys), idx,
                            WithSlippage(candle.close), reason),
             rm, positions[Head(keys)], closed_trades, candle, idx, reason)

force_close_all(positions, rm, trades, candle, idx, reason) ==
    ForceLoop(PositionKeys(positions), positions, rm, trades, <<>>, candle,
              idx, reason)

\* --------------------------------------------- backtest/portfolio.py
\* Portfolio.__init__
PortfolioInit ==
    [initial_capital |-> initial_capital, current_capital |-> initial_capital,
     peak_capital |-> initial_capital, trades |-> <<>>,
     equity_history |-> <<>>]

\* Variant for C28: a gate that lets every entry through.
can_open_position_any(p) == TRUE

\* Portfolio.can_open_position
can_open_position(p) == p.current_capital >= trade_size_usdt

\* Portfolio.add_trade
add_trade(p, ref) == [p EXCEPT !.trades = Append(@, ref)]

\* Variant for C2: an update_capital that counts the pnl twice.
update_capital_twice(p, trade) ==
    [p EXCEPT !.current_capital = @ + 2 * Val(trade.pnl_usdt)]

\* Portfolio.update_capital
update_capital(p, trade) ==
    LET cap == p.current_capital + Val(trade.pnl_usdt) IN
    [p EXCEPT !.current_capital = cap,
              !.peak_capital = Max(@, cap)]

\* The Trades of portfolio.trades that have no exit_time.
OpenRefs(p, trades) ==
    SelectSeq(p.trades, LAMBDA r : IsNone(trades[r].exit_time))

RECURSIVE SumUnrealized(_, _)
SumUnrealized(refs, trades) ==
    IF refs = <<>> THEN 0
    ELSE OrZero(trades[Head(refs)].pnl_usdt) + SumUnrealized(Tail(refs), trades)

\* Portfolio.get_total_equity without current_prices, as the backtester
\* calls it.
get_total_equity(p, trades) ==
    p.current_capital + SumUnrealized(OpenRefs(p, trades), trades)

\* floor(a * Scale / b) for b > 0, by long division in base 100.
Ratio(a, b) ==
    LET q0 == a \div b
        r0 == a % b
        q1 == (r0 * 100) \div b
        r1 == (r0 * 100) % b
        q2 == (r1 * 100) \div b
    IN  q0 * Scale + q1 * 100 + q2

\* Portfolio.record_snapshot
record_snapshot(p, trades, timestamp, idx) ==
    LET total_equity == get_total_equity(p, trades)
        open_count == Len(OpenRefs(p, trades))
    IN  [p EXCEPT
           !.equity_history = Append(@,
               [timestamp |-> timestamp, idx |-> idx,
                equity |-> total_equity, cash |-> p.current_capital,
                open_positions_value |-> open_count * trade_size_usdt,
                open_positions_count |-> open_count,
                drawdown |-> IF p.peak_capital > 0
                             THEN Ratio((p.peak_capital - total_equity) * 100,
                                        p.peak_capital)
                             ELSE 0]),
           !.peak_capital = Max(@, total_equity)]

\* ------------------------------------------------ backtest/backtester.py
\* The state.  In sequential mode watchlist, positions and rm are the
\* Backtester's own StrategyEngine.watchlist, PositionManager.positions and
\* PositionManager.risk_manager; in parallel mode they are the objects the
\* running worker constructed.  The candle series of the symbol is read bar
\* by bar: hist holds high and close of the bars idx-pump_window..idx,
\* candle is bar idx, and the series ends (n = idx + 1) when EndOfData is
\* taken; no step reads a bar after idx.
VARIABLES mode, queue, sym, pc, idx, hist, candle, watchlist, ready_items,
          positions, rm, trades, symbol_trades, all_trades, portfolio,
          closed, forced_closed, opened, results, probe, bars, twin, fault

vars == <<mode, queue, sym, pc, idx, hist, candle, watchlist, ready_items,
          positions, rm, trades, symbol_trades, all_trades, portfolio,
          closed, forced_closed, opened, results, probe, bars, twin, fault>>

UUIDs == 1..MaxUuid
HighClose == {[high |-> c.high, close |-> c.close] : c \in Candles}
NoCandle == [high |-> 0, low |-> 0, close |-> 0]
EmptyWatchlist == [s \in Symbols |-> None]
NoPositions == [s \in Symbols |-> 0]

RECURSIVE SeqUpTo(_, _)
SeqUpTo(a, b) == IF a > b THEN <<>> ELSE <<a>> \o SeqUpTo(a + 1, b)

\* df["high"].values and df["close"].values on the bars the step may read.
FirstIdx == idx - Len(hist) + 1
HighArr == [i \in FirstIdx..idx |-> hist[i - FirstIdx + 1].high]
CloseArr == [i \in FirstIdx..idx |-> hist[i - FirstIdx + 1].close]

\* Backtester.__init__, before run_sequential or run_multiprocess.
InitRun ==
    /\ queue = SeqUpTo(1, MaxSymbols)
    /\ sym = 0
    /\ pc = "idle"
    /\ idx = 0
    /\ hist = <<>>
    /\ candle = NoCandle
    /\ watchlist = EmptyWatchlist
    /\ ready_items = <<>>
    /\ positions = NoPositions
    /\ rm = RiskManagerInit(initial_capital)
    /\ trades = <<>>
    /\ symbol_trades = <<>>
    /\ all_trades = <<>>
    /\ portfolio = PortfolioInit
    /\ closed = <<>>
    /\ forced_closed = <<>>
    /\ opened = None
    /\ results = <<>>
    /\ probe = None
    /\ bars = 0
    /\ twin = None
    /\ fault = {}

Init == mode \in {"sequential", "parallel"} /\ InitRun

\* twin, when set, is the state of a second Backtester with the same
\* configuration.  In sequential mode run_sequential takes it through the
\* same market_data, bar by bar beside the first; in parallel mode it is
\* given, for each symbol, a market_data that holds that symbol alone.
\* TwinStep is that Backtester after a step that leaves it as t.
TwinStep(t) == IF IsNone(twin) THEN None ELSE Some(t)

\* Backtester.__init__, and the objects a worker constructs (lines 158-165).
TwinInit == [watchlist |-> EmptyWatchlist, positions |-> NoPositions, rm |-> RiskManagerInit(initial_capital), trades |-> <<>>, symbol_trades |-> <<>>, all_trades |-> <<>>, portfolio |-> PortfolioInit, ready_items |-> <<>>, closed |-> <<>>, forced_closed |-> <<>>]

\* Lines 32-44 on the second Backtester; lines 158-165 for the only worker
\* of a run of one symbol.
TwinStart(t) == IF mode = "parallel" THEN TwinInit ELSE [t EXCEPT !.watchlist = EmptyWatchlist, !.positions = NoPositions, !.symbol_trades = <<>>, !.ready_items = <<>>, !.closed = <<>>, !.forced_closed = <<>>]

\* Variant for C13: workers that share one StrategyEngine and one
\* PositionManager, taken from the enclosing Backtester and never cleared.
StartSymbol_shared ==
    /\ pc = "idle"
    /\ queue # <<>>
    /\ sym' = Head(queue)
    /\ queue' = Tail(queue)
    /\ symbol_trades' = <<>>
    /\ \E first \in [1..pump_window -> HighClose] : hist' = first
    /\ idx' = pump_window - 1
    /\ candle' = NoCandle
    /\ ready_items' = <<>>
    /\ closed' = <<>>
    /\ forced_closed' = <<>>
    /\ opened' = None
    /\ pc' = "bar"
    /\ twin' = TwinStep(TwinStart(Val(twin)))
    /\ UNCHANGED <<mode, fault, watchlist, positions, rm, trades, all_trades, portfolio, results, probe, bars>>

\* run_on_symbol lines 30-44, worker lines 158-168: the next symbol of
\* market_data; cleared watchlist and positions, and for a worker a new
\* PositionManager with a new RiskManager.  The bars before pump_window are
\* only ever read through high and close.
StartSymbol ==
    /\ pc = "idle"
    /\ queue # <<>>
    /\ ~(mode = "sequential" /\ Head(queue) \in fault)
    /\ sym' = Head(queue)
    /\ queue' = Tail(queue)
    /\ symbol_trades' = <<>>
    /\ watchlist' = EmptyWatchlist
    /\ positions' = NoPositions
    /\ rm' = IF mode = "parallel" THEN RiskManagerInit(initial_capital) ELSE rm
    /\ \E first \in [1..pump_window -> HighClose] : hist' = first
    /\ idx' = pump_window - 1
    /\ candle' = NoCandle
    /\ ready_items' = <<>>
    /\ closed' = <<>>
    /\ forced_closed' = <<>>
    /\ opened' = None
    /\ pc' = "bar"
    /\ twin' = TwinStep(TwinStart(Val(twin)))
    /\ UNCHANGED <<mode, fault, trades, all_trades, portfolio, results, probe, bars>>

\* for idx in range(pump_window, n): the loop takes the next bar.
NextBar ==
    /\ pc = "bar"
    /\ bars < MaxBars
    /\ bars' = bars + 1
    /\ idx' = idx + 1
    /\ \E c \in Candles :
         /\ candle' = c
         /\ hist' = LastN(Append(hist, [high |-> c.high, close |-> c.close]),
                          pump_window + 1)
    /\ opened' = None
    /\ pc' = "scan"
    /\ UNCHANGED <<mode, fault, queue, sym, watchlist, ready_items, positions, rm,
                   trades, symbol_trades, all_trades, portfolio, closed,
                   forced_closed, results, probe, twin>>

\* The loop is over: bar idx was the last of the series.
EndOfData ==
    /\ pc = "bar"
    /\ pc' = "eod"
    /\ UNCHANGED <<mode, fault, queue, sym, idx, hist, candle, watchlist, ready_items,
                   positions, rm, trades, symbol_trades, all_trades,
                   portfolio, closed, forced_closed, opened, results, probe, bars,
                   twin>>

\* Line 50 on the second Backtester.
TwinAdd(t, item) == [t EXCEPT !.watchlist = add_to_watchlist(@, item)]

\* Step 1, lines 47-50 (worker 171-173): detector, then add_to_watchlist.
Scan ==
    /\ pc = "scan"
    /\ sym \notin fault
    /\ LET pump_item ==
             IF mode = "sequential"
             THEN scan_for_pumps_numba(sym, HighArr, CloseArr, idx,
                                       pump_window, pump_threshold)
             ELSE scan_for_pumps(sym, HighArr, CloseArr, idx, pump_window,
                                 pump_threshold)
       IN  /\ watchlist' = IF IsNone(pump_item) THEN watchlist
                          ELSE add_to_watchlist(watchlist, Val(pump_item))
           /\ twin' = IF IsNone(pump_item) THEN twin
                      ELSE TwinStep(TwinAdd(Val(twin), Val(pump_item)))
    /\ pc' = "update"
    /\ UNCHANGED <<mode, fault, queue, sym, idx, hist, candle, ready_items, positions,
                   rm, trades, symbol_trades, all_trades, portfolio, closed,
                   forced_closed, opened, results, probe, bars>>

\* Line 53 on the second Backtester.
TwinUpdated(t, r) == [t EXCEPT !.watchlist = r.watchlist, !.ready_items = r.ready]

TwinUpdate(t) == TwinUpdated(t, update_watchlist(t.watchlist, candle, idx))

\* Step 2, line 53 (worker 175).
Update ==
    /\ pc = "update"
    /\ LET r == update_watchlist(watchlist, candle, idx) IN
         /\ watchlist' = r.watchlist
         /\ ready_items' = r.ready
    /\ twin' = TwinStep(TwinUpdate(Val(twin)))
    /\ pc' = "entries"
    /\ UNCHANGED <<mode, fault, queue, sym, idx, hist, candle, positions, rm, trades,
                   symbol_trades, all_trades, portfolio, closed,
                   forced_closed, opened, results, probe, bars>>

\* Step 3, lines 55-64 (worker 177-182), for the ready items in order.  st
\* is what the loop has changed so far; uuids are the random parts drawn
\* for the trade ids.  The worker has no capital gate, no Portfolio and no
\* all_trades.
RECURSIVE EntriesLoop(_, _, _, _, _)
\* Variant for C24: the watchlist item comes back when open_position
\* rejects the Trade.
Opened_onsuccess(items, uuids, st, wl, o, ref, c, i) ==
    EntriesLoop(Tail(items), Tail(uuids),
       [watchlist |-> IF o.success THEN wl ELSE st.watchlist,
        positions |-> o.positions,
        rm |-> o.rm,
        trades |-> o.trades,
        portfolio |-> IF o.success /\ mode = "sequential"
                      THEN add_trade(st.portfolio, ref)
                      ELSE st.portfolio,
        symbol_trades |-> IF o.success
                          THEN Append(st.symbol_trades, ref)
                          ELSE st.symbol_trades,
        all_trades |-> IF o.success /\ mode = "sequential"
                       THEN Append(st.all_trades, ref)
                       ELSE st.all_trades,
        opened |-> Some([ref |-> ref, success |-> o.success,
                         reason |-> o.reason])],
       c, i)

\* Variant for C40: a worker that files its Trades in the Portfolio.
Opened_filed(items, uuids, st, wl, o, ref, c, i) ==
    EntriesLoop(Tail(items), Tail(uuids),
       [watchlist |-> wl,
        positions |-> o.positions,
        rm |-> o.rm,
        trades |-> o.trades,
        portfolio |-> IF o.success
                      THEN add_trade(st.portfolio, ref)
                      ELSE st.portfolio,
        symbol_trades |-> IF o.success
                          THEN Append(st.symbol_trades, ref)
                          ELSE st.symbol_trades,
        all_trades |-> IF o.success /\ mode = "sequential"
                       THEN Append(st.all_trades, ref)
                       ELSE st.all_trades,
        opened |-> Some([ref |-> ref, success |-> o.success,
                         reason |-> o.reason])],
       c, i)

\* Lines 59-64 (worker 180-182): the Trade `ref` was constructed, wl is the
\* watchlist without its item and o the result of open_position.
Opened(items, uuids, st, wl, o, ref, c, i) ==
    EntriesLoop(Tail(items), Tail(uuids),
       [watchlist |-> wl,
        positions |-> o.positions,
        rm |-> o.rm,
        trades |-> o.trades,
        portfolio |-> IF o.success /\ mode = "sequential"
                      THEN add_trade(st.portfolio, ref)
                      ELSE st.portfolio,
        symbol_trades |-> IF o.success
                          THEN Append(st.symbol_trades, ref)
                          ELSE st.symbol_trades,
        all_trades |-> IF o.success /\ mode = "sequential"
                       THEN Append(st.all_trades, ref)
                       ELSE st.all_trades,
        opened |-> Some([ref |-> ref, success |-> o.success,
                         reason |-> o.reason])],
       c, i)

\* Lines 58-59 (worker 179-180): r is the result of check_entry_conditions.
Checked(items, uuids, st, r, ref, c, i) ==
    IF IsNone(r.trade)
    THEN EntriesLoop(Tail(items), Tail(uuids),
                     [st EXCEPT !.watchlist = r.watchlist], c, i)
    ELSE Opened(items, uuids, st, r.watchlist,
                open_position(st.positions, st.rm,
                              Append(st.trades, Val(r.trade)), ref, c, i),
                ref, c, i)

EntriesLoop(items, uuids, st, c, i) ==
    IF items = <<>> THEN st
    ELSE IF mode = "sequential" /\ ~can_open_position(st.portfolio)
    THEN EntriesLoop(Tail(items), Tail(uuids), st, c, i)
    ELSE Checked(items, uuids, st,
                 check_entry_conditions(Head(items), c, i, st.positions,
                                        st.watchlist, Head(uuids)),
                 Len(st.trades) + 1, c, i)

\* The state the loop of step 3 leaves.
EntriesDone(st) ==
    /\ watchlist' = st.watchlist
    /\ positions' = st.positions
    /\ rm' = st.rm
    /\ trades' = st.trades
    /\ portfolio' = st.portfolio
    /\ symbol_trades' = st.symbol_trades
    /\ all_trades' = st.all_trades
    /\ opened' = st.opened

\* Lines 55-64 on the second Backtester, which draws its own uuids.
TwinEntered(t, st) == [t EXCEPT !.watchlist = st.watchlist, !.positions = st.positions, !.rm = st.rm, !.trades = st.trades, !.portfolio = st.portfolio, !.symbol_trades = st.symbol_trades, !.all_trades = st.all_trades]

TwinState(t) == [watchlist |-> t.watchlist, positions |-> t.positions, rm |-> t.rm, trades |-> t.trades, portfolio |-> t.portfolio, symbol_trades |-> t.symbol_trades, all_trades |-> t.all_trades, opened |-> None]

TwinEntries(t, uuids) == TwinEntered(t, EntriesLoop(t.ready_items, uuids, TwinState(t), candle, idx))

\* The uuid4 values the second Backtester draws: any in a second sequential
\* run; for the run of one symbol alone, the case where uuid4 returns what
\* it returned to the worker of that symbol in the run of all symbols.
SameUuids(uuids, n) == [k \in 1..n |-> IF k <= Len(uuids) THEN uuids[k] ELSE 1]

TwinUuids(uuids) == IF IsNone(twin) THEN {<<>>} ELSE IF mode = "parallel" THEN {SameUuids(uuids, Len(Val(twin).ready_items))} ELSE [1..Len(Val(twin).ready_items) -> UUIDs]

Entries ==
    /\ pc = "entries"
    /\ \E uuids \in [1..Len(ready_items) -> UUIDs] :
         /\ EntriesDone(EntriesLoop(ready_items, uuids,
                     [watchlist |-> watchlist, positions |-> positions,
                      rm |-> rm, trades |-> trades, portfolio |-> portfolio,
                      symbol_trades |-> symbol_trades,
                      all_trades |-> all_trades, opened |-> opened],
                     candle, idx))
         /\ \E uuids2 \in TwinUuids(uuids) :
              twin' = TwinStep(TwinEntries(Val(twin), uuids2))
    /\ pc' = "check"
    /\ UNCHANGED <<mode, fault, queue, sym, idx, hist, candle, ready_items, closed,
                   forced_closed, results, probe, bars>>

\* The state check_positions leaves; closed is what it returns.
CheckDone(r) ==
    /\ positions' = r.positions
    /\ rm' = r.rm
    /\ trades' = r.trades
    /\ closed' = r.closed

\* Line 67 on the second Backtester.
TwinChecked(t, r) == [t EXCEPT !.positions = r.positions, !.rm = r.rm, !.trades = r.trades, !.closed = r.closed]

TwinCheck(t) == TwinChecked(t, check_positions(t.positions, t.rm, t.trades, candle, idx))

\* Variant for C31: a loop whose bar ends with the per-bar check.
Check_tobar ==
    /\ pc = "check"
    /\ CheckDone(check_positions(positions, rm, trades, candle, idx))
    /\ twin' = TwinStep(TwinCheck(Val(twin)))
    /\ pc' = "bar"
    /\ UNCHANGED <<mode, fault, queue, sym, idx, hist, candle, watchlist, ready_items,
                   symbol_trades, all_trades, portfolio, forced_closed,
                   opened, results, probe, bars>>

\* Step 4, line 67 (worker 184).  The worker goes on to the next bar.
Check ==
    /\ pc = "check"
    /\ CheckDone(check_positions(positions, rm, trades, candle, idx))
    /\ twin' = TwinStep(TwinCheck(Val(twin)))
    /\ pc' = IF mode = "sequential" THEN "capital" ELSE "bar"
    /\ UNCHANGED <<mode, fault, queue, sym, idx, hist, candle, watchlist, ready_items,
                   symbol_trades, all_trades, portfolio, forced_closed,
                   opened, results, probe, bars>>

\* Lines 71-74: the last Trade of portfolio.trades of that symbol that has
\* an exit_time, 0 if there is none.
RECURSIVE LastClosedOf(_, _, _, _)
LastClosedOf(refs, k, store, symbol) ==
    IF k = 0 THEN 0
    ELSE IF store[refs[k]].symbol = symbol /\ ~IsNone(store[refs[k]].exit_time)
    THEN refs[k]
    ELSE LastClosedOf(refs, k - 1, store, symbol)

\* Variant for C29: a loop without step 5.
CapitalLoop_none(cl, p, store) == p

\* Step 5, lines 69-74: update_capital for every symbol closed on this bar.
RECURSIVE CapitalLoop(_, _, _)
CapitalLoop(cl, p, store) ==
    IF cl = <<>> THEN p
    ELSE LET ref == LastClosedOf(p.trades, Len(p.trades), store, Head(cl)[1])
         IN  CapitalLoop(Tail(cl),
                         IF ref = 0 THEN p ELSE update_capital(p, store[ref]),
                         store)

\* Lines 69-78 on the second Backtester.
TwinCapital(t) == [t EXCEPT !.portfolio = CapitalLoop(t.closed, @, t.trades)]

TwinSnapshot(t) == [t EXCEPT !.portfolio = IF idx % 4 = 0 THEN record_snapshot(@, t.trades, idx, idx) ELSE @]

Capital ==
    /\ pc = "capital"
    /\ portfolio' = CapitalLoop(closed, portfolio, trades)
    /\ twin' = TwinStep(TwinCapital(Val(twin)))
    /\ pc' = "snapshot"
    /\ UNCHANGED <<mode, fault, queue, sym, idx, hist, candle, watchlist, ready_items,
                   positions, rm, trades, symbol_trades, all_trades, closed,
                   forced_closed, opened, results, probe, bars>>

\* Step 6, lines 76-78.
Snapshot ==
    /\ pc = "snapshot"
    /\ portfolio' = IF idx % 4 = 0
                    THEN record_snapshot(portfolio, trades, idx, idx)
                    ELSE portfolio
    /\ twin' = TwinStep(TwinSnapshot(Val(twin)))
    /\ pc' = "bar"
    /\ UNCHANGED <<mode, fault, queue, sym, idx, hist, candle, watchlist, ready_items,
                   positions, rm, trades, symbol_trades, all_trades, closed,
                   forced_closed, opened, results, probe, bars>>

\* The state force_close_all leaves; forced_closed is what it returns.
ForceDone(r) ==
    /\ positions' = r.positions
    /\ rm' = r.rm
    /\ trades' = r.trades
    /\ forced_closed' = r.closed_trades

\* Lines 80-82 on the second Backtester.
TwinForced(t, r) == [t EXCEPT !.positions = r.positions, !.rm = r.rm, !.trades = r.trades, !.forced_closed = r.closed_trades]

TwinForce(t) == TwinForced(t, force_close_all(t.positions, t.rm, t.trades, candle, idx, "eod"))

\* Lines 80-82 (worker 186-188): force_close_all on the last bar.  With no
\* resident position the candle is not read.
ForceClose ==
    /\ pc = "eod"
    /\ ForceDone(force_close_all(positions, rm, trades, candle, idx, "eod"))
    /\ twin' = TwinStep(TwinForce(Val(twin)))
    /\ pc' = IF mode = "sequential" THEN "eod_capital" ELSE "return"
    /\ UNCHANGED <<mode, fault, queue, sym, idx, hist, candle, watchlist, ready_items,
                   symbol_trades, all_trades, portfolio, closed, opened,
                   results, probe, bars>>

\* Variant for C8: forced closes that never reach the ledger.
ForcedCapitalLoop_skip(refs, p, store) == p

RECURSIVE ForcedCapitalLoop(_, _, _)
ForcedCapitalLoop(refs, p, store) ==
    IF refs = <<>> THEN p
    ELSE ForcedCapitalLoop(Tail(refs), update_capital(p, store[Head(refs)]),
                           store)

\* Lines 84-88 on the second Backtester.
TwinEodCapital(t) == [t EXCEPT !.portfolio = ForcedCapitalLoop(t.forced_closed, @, t.trades)]

\* Lines 84-88: update_capital for every forced close.
EodCapital ==
    /\ pc = "eod_capital"
    /\ portfolio' = ForcedCapitalLoop(forced_closed, portfolio, trades)
    /\ twin' = TwinStep(TwinEodCapital(Val(twin)))
    /\ pc' = "return"
    /\ UNCHANGED <<mode, fault, queue, sym, idx, hist, candle, watchlist, ready_items,
                   positions, rm, trades, symbol_trades, all_trades, closed,
                   forced_closed, opened, results, probe, bars>>

\* Line 90 on the second Backtester.
TwinReturn(t) == [t EXCEPT !.ready_items = <<>>, !.closed = <<>>, !.forced_closed = <<>>]

\* Line 90 (worker 190): symbol_trades is returned; a worker's list becomes
\* one element of the results of Parallel.  The locals of the call (the
\* arrays of df, idx, ready_items, closed, forced_closed) end with it.
Return ==
    /\ pc = "return"
    /\ results' = IF mode = "parallel" THEN Append(results, symbol_trades)
                  ELSE results
    /\ idx' = 0
    /\ hist' = <<>>
    /\ candle' = NoCandle
    /\ ready_items' = <<>>
    /\ closed' = <<>>
    /\ forced_closed' = <<>>
    /\ opened' = None
    /\ twin' = TwinStep(TwinReturn(Val(twin)))
    /\ pc' = "idle"
    /\ UNCHANGED <<mode, fault, queue, sym, watchlist, positions, rm, trades,
                   symbol_trades, all_trades, portfolio, probe, bars>>

RECURSIVE Concat(_)
Concat(lists) == IF lists = <<>> THEN <<>> ELSE Head(lists) \o Concat(Tail(lists))

\* run_sequential line 212, run_multiprocess lines 196-206: every symbol is
\* done; the parallel run concatenates the workers' lists into all_trades.
Finish ==
    /\ pc = "idle"
    /\ queue = <<>>
    /\ all_trades' = IF mode = "parallel" THEN Concat(results) ELSE all_trades
    /\ pc' = "done"
    /\ UNCHANGED twin
    /\ UNCHANGED <<mode, fault, queue, sym, idx, hist, candle, watchlist, ready_items,
                   positions, rm, trades, symbol_trades, portfolio, closed,
                   forced_closed, opened, results, probe, bars>>

Next ==
    \/ StartSymbol \/ NextBar \/ EndOfData \/ Scan \/ Update \/ Entries
    \/ Check \/ Capital \/ Snapshot \/ ForceClose \/ EodCapital \/ Return
    \/ Finish

Spec == Init /\ [][Next]_vars

\* Two Backtesters constructed with the same configuration, each taken
\* through run_sequential on the same market_data.
InitTwin ==
    /\ mode = "sequential"
    /\ queue = SeqUpTo(1, MaxSymbols)
    /\ sym = 0
    /\ pc = "idle"
    /\ idx = 0
    /\ hist = <<>>
    /\ candle = NoCandle
    /\ watchlist = EmptyWatchlist
    /\ ready_items = <<>>
    /\ positions = NoPositions
    /\ rm = RiskManagerInit(initial_capital)
    /\ trades = <<>>
    /\ symbol_trades = <<>>
    /\ all_trades = <<>>
    /\ portfolio = PortfolioInit
    /\ closed = <<>>
    /\ forced_closed = <<>>
    /\ opened = None
    /\ results = <<>>
    /\ probe = None
    /\ bars = 0
    /\ twin = Some(TwinInit)
    /\ fault = {}

SpecTwin == InitTwin /\ [][Next]_vars

\* run_multiprocess on all symbols, and beside the worker of each symbol a
\* run_multiprocess on a market_data that holds that symbol alone.
InitSolo ==
    /\ mode = "parallel"
    /\ queue = SeqUpTo(1, MaxSymbols)
    /\ sym = 0
    /\ pc = "idle"
    /\ idx = 0
    /\ hist = <<>>
    /\ candle = NoCandle
    /\ watchlist = EmptyWatchlist
    /\ ready_items = <<>>
    /\ positions = NoPositions
    /\ rm = RiskManagerInit(initial_capital)
    /\ trades = <<>>
    /\ symbol_trades = <<>>
    /\ all_trades = <<>>
    /\ portfolio = PortfolioInit
    /\ closed = <<>>
    /\ forced_closed = <<>>
    /\ opened = None
    /\ results = <<>>
    /\ probe = None
    /\ bars = 0
    /\ twin = Some(TwinInit)
    /\ fault = {}

\* The sequential steps 5, 6 and the capital updates after the forced closes
\* are not steps of a worker.
NextSolo ==
    \/ StartSymbol \/ NextBar \/ EndOfData \/ Scan \/ Update \/ Entries
    \/ Check \/ ForceClose \/ Return \/ Finish

SpecSolo == InitSolo /\ [][NextSolo]_vars

\* market_data in which the DataFrames of the symbols in fault lack the
\* "close" column: df["close"] raises KeyError.
InitFault ==
    /\ mode \in {"sequential", "parallel"}
    /\ queue = SeqUpTo(1, MaxSymbols)
    /\ sym = 0
    /\ pc = "idle"
    /\ idx = 0
    /\ hist = <<>>
    /\ candle = NoCandle
    /\ watchlist = EmptyWatchlist
    /\ ready_items = <<>>
    /\ positions = NoPositions
    /\ rm = RiskManagerInit(initial_capital)
    /\ trades = <<>>
    /\ symbol_trades = <<>>
    /\ all_trades = <<>>
    /\ portfolio = PortfolioInit
    /\ closed = <<>>
    /\ forced_closed = <<>>
    /\ opened = None
    /\ results = <<>>
    /\ probe = None
    /\ bars = 0
    /\ twin = None
    /\ fault \in (SUBSET Symbols) \ {{}}

\* run_on_symbol line 35: run_sequential reaches a symbol whose DataFrame
\* has no "close"; nothing catches the KeyError and the run ends with it.
RaiseSequential ==
    /\ mode = "sequential"
    /\ pc = "idle"
    /\ queue # <<>>
    /\ Head(queue) \in fault
    /\ pc' = "raised"
    /\ UNCHANGED <<mode, fault, queue, sym, idx, hist, candle, watchlist, ready_items, positions, rm, trades, symbol_trades, all_trades, portfolio, closed, forced_closed, opened, results, probe, bars, twin>>

\* worker line 171: scan_for_pumps reads df.iloc[start_idx]["close"] on the
\* first bar of the loop and raises.  The worker has no try, nor has the
\* Parallel call of lines 192-194, which raises the worker's exception in the
\* caller: results is never bound, lines 196-206 do not run and
\* self.all_trades keeps the empty list of __init__.
RaiseParallel ==
    /\ mode = "parallel"
    /\ pc = "scan"
    /\ sym \in fault
    /\ results' = <<>>
    /\ pc' = "raised"
    /\ UNCHANGED <<mode, fault, queue, sym, idx, hist, candle, watchlist, ready_items, positions, rm, trades, symbol_trades, all_trades, portfolio, closed, forced_closed, opened, probe, bars, twin>>

NextFault ==
    \/ StartSymbol \/ NextBar \/ EndOfData \/ Scan \/ Update \/ Entries
    \/ Check \/ Capital \/ Snapshot \/ ForceClose \/ EodCapital \/ Return
    \/ Finish \/ RaiseSequential \/ RaiseParallel

SpecFault == InitFault /\ [][NextFault]_vars

\* ------------------------------------------- a run short of capital
\* StrategyConfig(initial_capital = c): run_sequential with a capital just
\* below trade_size_usdt, equal to it, and 5 USDT above it (one stop takes
\* it below).
GateCapitals == {trade_size_usdt - 1, trade_size_usdt, trade_size_usdt + 5 * Scale}

PortfolioWith(c) ==
    [PortfolioInit EXCEPT !.initial_capital = c, !.current_capital = c,
                          !.peak_capital = c]

InitGate ==
    /\ mode = "sequential"
    /\ queue = SeqUpTo(1, MaxSymbols)
    /\ sym = 0
    /\ pc = "idle"
    /\ idx = 0
    /\ hist = <<>>
    /\ candle = NoCandle
    /\ watchlist = EmptyWatchlist
    /\ ready_items = <<>>
    /\ positions = NoPositions
    /\ \E c \in GateCapitals :
         /\ rm = RiskManagerInit(c)
         /\ portfolio = PortfolioWith(c)
    /\ trades = <<>>
    /\ symbol_trades = <<>>
    /\ all_trades = <<>>
    /\ closed = <<>>
    /\ forced_closed = <<>>
    /\ opened = None
    /\ results = <<>>
    /\ probe = None
    /\ bars = 0
    /\ twin = None
    /\ fault = {}

SpecGate == InitGate /\ [][Next]_vars

\* ----------------------------------------- the RiskManager driven directly
\* scripts/test_risk.py and a live caller feed a RiskManager with results
\* that no backtest fill can produce (a loss beyond -200% needs a stop
\* further away than sl_multiplier = 2).  Results are <<pnl_usdt,
\* pnl_percent>> of a 10 USDT position.
ResultPercents == {-250, -200, -50, 50}
Results == {<<(q * Scale) \div 10, q * Scale>> : q \in ResultPercents}

InitRisk == mode = "risk" /\ InitRun

\* RiskManager.on_trade_result, called with any result for any symbol.
OnTradeResult ==
    /\ mode = "risk"
    /\ Len(rm.trades_history) < MaxResults
    /\ \E s \in Symbols, r \in Results :
         /\ rm' = on_trade_result(rm, r[1], r[2], s)
         /\ probe' = IF IsNone(probe) THEN None
                      ELSE Some(bot_on_trade_result(Val(probe), r[1], r[2], s))
    /\ UNCHANGED twin
    /\ UNCHANGED <<mode, fault, queue, sym, pc, idx, hist, candle, watchlist,
                   ready_items, positions, trades, symbol_trades, all_trades,
                   portfolio, closed, forced_closed, opened, results, bars>>

SpecRisk == InitRisk /\ [][OnTradeResult]_vars

\* The RiskManager of live/risk_manager.py in rm and the RiskManager of
\* bot.py in probe, constructed alike and given the same calls.
InitRiskPair ==
    /\ mode = "risk"
    /\ queue = SeqUpTo(1, MaxSymbols)
    /\ sym = 0
    /\ pc = "idle"
    /\ idx = 0
    /\ hist = <<>>
    /\ candle = NoCandle
    /\ watchlist = EmptyWatchlist
    /\ ready_items = <<>>
    /\ positions = NoPositions
    /\ rm = RiskManagerInit(initial_capital)
    /\ trades = <<>>
    /\ symbol_trades = <<>>
    /\ all_trades = <<>>
    /\ portfolio = PortfolioInit
    /\ closed = <<>>
    /\ forced_closed = <<>>
    /\ opened = None
    /\ results = <<>>
    /\ probe = Some(BotRiskManagerInit(initial_capital))
    /\ bars = 0
    /\ twin = None
    /\ fault = {}

SpecRiskPair == InitRiskPair /\ [][OnTradeResult]_vars

\* ------------------------------------------- a RiskManager with a long past
\* A RiskManager one record short of the cap of its trades_history, after
\* HistoryCap - 1 calls of on_trade_result that alternate a gain of the
\* first symbol and a loss of the second; then up to MaxExtra calls with any
\* result.  probe is the list of all calls made, in call order.
MaxExtra == 3

Call(symbol, pnl_usdt, pnl_percent) ==
    [symbol |-> symbol, pnl_usdt |-> pnl_usdt, pnl_percent |-> pnl_percent]

PastCall(k) ==
    IF k % 2 = 1 THEN Call(1, 5 * Scale, 50 * Scale)
    ELSE Call(MaxSymbols, (0 - 5) * Scale, (0 - 50) * Scale)

PastCalls == [k \in 1..(HistoryCap - 1) |-> PastCall(k)]

\* The RiskManager after the calls lo..hi of the list, made in order.  The
\* range is split in two and the first half is computed (the test makes TLC
\* evaluate it) before the second starts, to keep the evaluation shallow.
RECURSIVE ReplayCalls(_, _, _, _)
ReplayCalls(r, calls, lo, hi) ==
    IF lo > hi THEN r
    ELSE IF lo = hi
    THEN on_trade_result(r, calls[lo].pnl_usdt, calls[lo].pnl_percent,
                         calls[lo].symbol)
    ELSE LET first == ReplayCalls(r, calls, lo, (lo + hi) \div 2)
         IN  IF first = first
             THEN ReplayCalls(first, calls, (lo + hi) \div 2 + 1, hi)
             ELSE first

InitHistory ==
    /\ mode = "history"
    /\ queue = <<>>
    /\ sym = 0
    /\ pc = "idle"
    /\ idx = 0
    /\ hist = <<>>
    /\ candle = NoCandle
    /\ watchlist = EmptyWatchlist
    /\ ready_items = <<>>
    /\ positions = NoPositions
    /\ rm = ReplayCalls(RiskManagerInit(initial_capital), PastCalls, 1, HistoryCap - 1)
    /\ trades = <<>>
    /\ symbol_trades = <<>>
    /\ all_trades = <<>>
    /\ portfolio = PortfolioInit
    /\ closed = <<>>
    /\ forced_closed = <<>>
    /\ opened = None
    /\ results = <<>>
    /\ probe = Some(PastCalls)
    /\ bars = 0
    /\ twin = None
    /\ fault = {}

\* RiskManager.on_trade_result, called with any result for any symbol.
RecordResult ==
    /\ mode = "history"
    /\ Len(Val(probe)) < HistoryCap - 1 + MaxExtra
    /\ \E s \in Symbols, r \in Results :
         /\ rm' = on_trade_result(rm, r[1], r[2], s)
         /\ probe' = Some(Append(Val(probe), Call(s, r[1], r[2])))
    /\ UNCHANGED twin
    /\ UNCHANGED <<mode, fault, queue, sym, pc, idx, hist, candle, watchlist,
                   ready_items, positions, trades, symbol_trades, all_trades,
                   portfolio, closed, forced_closed, opened, results, bars>>

SpecHistory == InitHistory /\ [][RecordResult]_vars

\* ----------------------------------------- open_position driven directly
\* main.py takes tp_percent and sl_multiplier from the command line.  For a
\* configuration with any sl_multiplier > 1 and any tp_percent between 0 and
\* 1, check_entry_conditions hands open_position, on a stalled bar (high <=
\* local_high), a Trade with entry_price = close * (1 + slippage), some
\* sl_price above entry_price and some tp_price below close and local_high.
\* No position is resident (check_entry_conditions returns None otherwise).
ProbeItem(s, local_high) == WatchlistItem(s, 0, 1, local_high, 1, local_high, pump_threshold, 1)

ProbeTrade(s, c, local_high, tp_price, sl_price) == Trade(s, <<s, 2, 1>>, 2, WithSlippage(c.close), Mul(trade_size_usdt, taker_fee), ProbeItem(s, local_high), tp_price, sl_price)

InitOpen ==
    /\ mode = "open"
    /\ queue = <<>>
    /\ sym \in Symbols
    /\ pc = "open"
    /\ idx = 2
    /\ hist = <<>>
    /\ candle \in Candles
    /\ watchlist = EmptyWatchlist
    /\ ready_items = <<>>
    /\ positions = NoPositions
    /\ rm = RiskManagerInit(initial_capital)
    /\ \E local_high \in Prices, tp_price \in Prices, sl_price \in Prices :
         /\ candle.high <= local_high
         /\ tp_price < candle.close
         /\ sl_price > WithSlippage(candle.close)
         /\ trades = <<ProbeTrade(sym, candle, local_high, tp_price, sl_price)>>
    /\ symbol_trades = <<>>
    /\ all_trades = <<>>
    /\ portfolio = PortfolioInit
    /\ closed = <<>>
    /\ forced_closed = <<>>
    /\ opened = None
    /\ results = <<>>
    /\ probe = None
    /\ bars = 0
    /\ twin = None
    /\ fault = {}

\* A PositionManager that has closed trades of the symbol before: its
\* RiskManager after up to MaxPast on_trade_result calls for the symbol.
MaxPast == 3

RECURSIVE Replay(_, _, _)
Replay(r, s, past) ==
    IF past = <<>> THEN r
    ELSE Replay(on_trade_result(r, Head(past)[1], Head(past)[2], s), s, Tail(past))

PastResults == UNION {[1..n -> Results] : n \in 0..MaxPast}

InitSize ==
    /\ mode = "open"
    /\ queue = <<>>
    /\ sym \in Symbols
    /\ pc = "open"
    /\ idx = 2
    /\ hist = <<>>
    /\ candle \in Candles
    /\ watchlist = EmptyWatchlist
    /\ ready_items = <<>>
    /\ positions = NoPositions
    /\ \E past \in PastResults :
         rm = Replay(RiskManagerInit(initial_capital), sym, past)
    /\ \E local_high \in Prices, tp_price \in Prices, sl_price \in Prices :
         /\ candle.high <= local_high
         /\ tp_price < candle.close
         /\ sl_price > WithSlippage(candle.close)
         /\ trades = <<ProbeTrade(sym, candle, local_high, tp_price, sl_price)>>
    /\ symbol_trades = <<>>
    /\ all_trades = <<>>
    /\ portfolio = PortfolioInit
    /\ closed = <<>>
    /\ forced_closed = <<>>
    /\ opened = None
    /\ results = <<>>
    /\ probe = None
    /\ bars = 0
    /\ twin = None
    /\ fault = {}

\* What open_position (result o) leaves and returns.
OpenProbed(o) ==
    /\ positions' = o.positions
    /\ rm' = o.rm
    /\ trades' = o.trades
    /\ opened' = Some([ref |-> 1, success |-> o.success, reason |-> o.reason])

\* PositionManager.open_position(trade, df, idx).
OpenProbe ==
    /\ pc = "open"
    /\ OpenProbed(open_position(positions, rm, trades, 1, candle, idx))
    /\ pc' = "opened"
    /\ UNCHANGED <<mode, fault, queue, sym, idx, hist, candle, watchlist, ready_items, symbol_trades, all_trades, portfolio, closed, forced_closed, results, probe, bars, twin>>

\* PositionManager.check_positions(df, idx) on a next bar, while the Trade
\* is resident.
CheckProbe ==
    /\ pc \in {"opened", "checked"}
    /\ positions[sym] # 0
    /\ idx < 2 + MaxProbeBars
    /\ idx' = idx + 1
    /\ \E c \in Candles :
         /\ candle' = c
         /\ CheckDone(check_positions(positions, rm, trades, c, idx + 1))
    /\ pc' = "checked"
    /\ UNCHANGED <<mode, fault, queue, sym, hist, watchlist, ready_items, symbol_trades, all_trades, portfolio, forced_closed, opened, results, probe, bars, twin>>

NextOpen == OpenProbe \/ CheckProbe

SpecOpen == InitOpen /\ [][NextOpen]_vars

SpecSize == InitSize /\ [][NextOpen]_vars

\* ------------------------------------------- the detectors on any arrays
\* Both detectors applied to the same high and close arrays of window + 1
\* bars, zero and negative prices included (the detectors do not assume
\* clean data), at idx = window.
PumpPrices == {p * Scale : p \in {-1200, -1000, 0, 1000, 1200}}
PumpBars == [high : PumpPrices, close : PumpPrices]

InitPump ==
    /\ mode = "pump"
    /\ queue = <<>>
    /\ sym = 1
    /\ pc = "probe"
    /\ \E w \in 1..MaxWindow :
         /\ idx = w
         /\ hist \in [1..(w + 1) -> PumpBars]
    /\ candle = NoCandle
    /\ watchlist = EmptyWatchlist
    /\ ready_items = <<>>
    /\ positions = NoPositions
    /\ rm = RiskManagerInit(initial_capital)
    /\ trades = <<>>
    /\ symbol_trades = <<>>
    /\ all_trades = <<>>
    /\ portfolio = PortfolioInit
    /\ closed = <<>>
    /\ forced_closed = <<>>
    /\ opened = None
    /\ results = <<>>
    /\ probe = None
    /\ bars = 0
    /\ twin = None
    /\ fault = {}

\* scan_for_pumps_numba (sequential mode) and scan_for_pumps (parallel
\* mode) on the arrays, with window = idx.
PumpProbe ==
    /\ pc = "probe"
    /\ probe' = Some([numba |-> scan_for_pumps_numba(sym, HighArr, CloseArr,
                                    idx, idx, pump_threshold),
                      pandas |-> scan_for_pumps(sym, HighArr, CloseArr, idx,
                                    idx, pump_threshold)])
    /\ pc' = "probed"
    /\ UNCHANGED twin
    /\ UNCHANGED <<mode, fault, queue, sym, idx, hist, candle, watchlist, ready_items,
                   positions, rm, trades, symbol_trades, all_trades,
                   portfolio, closed, forced_closed, opened, results, bars>>

SpecPump == InitPump /\ [][PumpProbe]_vars

\* ------------------------------------------------------------ properties
Range(seq) == {seq[k] : k \in 1..Len(seq)}

\* A Trade whose exit fields are all set.
IsClosed(trade) ==
    /\ ~IsNone(trade.exit_time)
    /\ ~IsNone(trade.exit_idx)
    /\ ~IsNone(trade.exit_price)
    /\ ~IsNone(trade.exit_reason)

\* The Trades the run has recorded: the returned lists, all_trades, the
\* portfolio's list and the resident positions.
RecordedRefs ==
    (Range(symbol_trades) \cup Range(all_trades) \cup Range(portfolio.trades)
        \cup Range(Concat(results)) \cup {positions[s] : s \in Symbols}) \ {0}

\* C1: when a run over one symbol is complete (run_on_symbol or the worker
\* is about to return), no position is resident and every Trade of the
\* returned list has its exit fields set.
C1_NoOpenAfterRun ==
    pc = "return" =>
        /\ \A s \in Symbols : positions[s] = 0
        /\ \A r \in Range(symbol_trades) : IsClosed(trades[r])

\* A run returns a Trade that the end of the data closed.
C1_Witness ==
    /\ pc = "return"
    /\ \E r \in Range(symbol_trades) : trades[r].exit_reason = Some("eod")

RECURSIVE SumClosedPnl(_, _)
SumClosedPnl(refs, store) ==
    IF refs = <<>> THEN 0
    ELSE (IF IsNone(store[Head(refs)].exit_time) THEN 0
          ELSE Val(store[Head(refs)].pnl_usdt))
         + SumClosedPnl(Tail(refs), store)

\* C2: in sequential mode, after every completed run_on_symbol,
\* current_capital is initial_capital plus the pnl_usdt of every closed
\* Trade of the portfolio, each counted once.
C2_CapitalIsLedger ==
    (mode = "sequential" /\ pc \in {"return", "idle", "done"}) =>
        portfolio.current_capital =
            portfolio.initial_capital + SumClosedPnl(portfolio.trades, trades)

\* A completed sequential run whose portfolio holds two closed Trades of
\* one symbol.
C2_Witness ==
    /\ mode = "sequential"
    /\ pc = "return"
    /\ \E a, b \in Range(portfolio.trades) :
         /\ a # b
         /\ trades[a].symbol = trades[b].symbol
         /\ IsClosed(trades[a]) /\ IsClosed(trades[b])

\* C3: an order whose entry bar has low <= tp_price (and high < sl_price)
\* yields a Trade closed on that bar: exit_reason "tp", exit_idx =
\* entry_idx, exit_price = tp_price * (1 + slippage), pnl computed.
C3_ImmediateTpCloses ==
    (pc = "check" /\ ~IsNone(opened)) =>
        LET t == trades[Val(opened).ref] IN
        (candle.low <= t.tp_price /\ candle.high < t.sl_price) =>
            /\ t.exit_reason = Some("tp")
            /\ t.exit_idx = Some(t.entry_idx)
            /\ t.exit_price = Some(t.tp_price + (t.tp_price \div Scale) * slippage)
            /\ ~IsNone(t.pnl_usdt)

\* C4: at any time at most one recorded Trade per symbol has an unset
\* exit, and of two recorded Trades of one run over a symbol the later
\* one is entered no earlier than the earlier one is closed.
C4_NoOverlap ==
    /\ \A a, b \in RecordedRefs :
         (/\ trades[a].symbol = trades[b].symbol
          /\ IsNone(trades[a].exit_time)
          /\ IsNone(trades[b].exit_time)) => a = b
    /\ \A j, k \in 1..Len(symbol_trades) :
         j < k =>
            /\ ~IsNone(trades[symbol_trades[j]].exit_idx)
            /\ trades[symbol_trades[k]].entry_idx
                  >= Val(trades[symbol_trades[j]].exit_idx)

\* A symbol trades twice in one run, the second Trade resident.
C4_Witness ==
    /\ Len(symbol_trades) = 2
    /\ positions[sym] = symbol_trades[2]
    /\ IsClosed(trades[symbol_trades[1]])

\* C5: while a symbol stays on the watchlist, its local_high never
\* decreases, whatever step is taken.
C5_LocalHighNeverDecreases ==
    [][\A s \in Symbols :
         (~IsNone(watchlist[s]) /\ ~IsNone(watchlist'[s])) =>
             Val(watchlist'[s]).local_high >= Val(watchlist[s]).local_high]_vars

\* C6: for an entry on the watchlist, update_watchlist sets stall_counter
\* to 0 when the bar's high > local_high and adds 1 otherwise, and no other
\* step changes the stall_counter of the symbol's entry.
C6_StallCounterRule ==
    [][\A s \in Symbols :
         (~IsNone(watchlist[s]) /\ ~IsNone(watchlist'[s])) =>
             Val(watchlist'[s]).stall_counter =
                 IF pc # "update" THEN Val(watchlist[s]).stall_counter
                 ELSE IF candle.high > Val(watchlist[s]).local_high THEN 0
                 ELSE Val(watchlist[s]).stall_counter + 1]_vars

\* The symbol's item is in the list update_watchlist returned on this bar.
InReady(s) == \E k \in 1..Len(ready_items) : ready_items[k].symbol = s

\* The symbol's entry has seen no high above local_high since its add.
Stalling(s) ==
    /\ ~IsNone(watchlist[s])
    /\ Val(watchlist[s]).last_high_update_idx = Val(watchlist[s]).added_time_idx

\* C7 as stated: an entry added at bar a, every following bar with high <=
\* local_high, is not returned as ready before the stall_bars-th bar after
\* the add.
C7_ReadyOnKthBarAfterAdd ==
    pc = "entries" =>
        \A s \in Symbols :
            (Stalling(s) /\ InReady(s)) =>
                idx - Val(watchlist[s]).added_time_idx >= stall_bars

\* C7 amended: the bar of the add counts as the first stall bar.  An entry
\* added at bar a that has seen no high above local_high since is returned
\* as ready on bar idx exactly when idx >= a + stall_bars - 1: for
\* stall_bars = 2 first on the bar after the add, never on the add bar.
C7_ReadyCountsAddBar ==
    pc = "entries" =>
        \A s \in Symbols :
            Stalling(s) =>
                (InReady(s) <=>
                    idx - Val(watchlist[s]).added_time_idx >= stall_bars - 1)

\* An entry is returned as ready on the first bar after its add.
C7_Witness ==
    /\ pc = "entries"
    /\ Stalling(sym)
    /\ InReady(sym)
    /\ idx = Val(watchlist[sym]).added_time_idx + 1

\* C8: force_close_all closes every position resident after the last bar
\* with exit_reason "eod", exit_idx n - 1 (the last bar, idx) and exit_price
\* close[n - 1] * (1 + slippage), and the sequential run then adds the pnl
\* of each of them to the portfolio's capital.
C8_ForcedCloseAtEod ==
    [][/\ pc = "eod" =>
            \A s \in Symbols :
                positions[s] # 0 =>
                    /\ positions'[s] = 0
                    /\ trades'[positions[s]].exit_reason = Some("eod")
                    /\ trades'[positions[s]].exit_idx = Some(idx)
                    /\ trades'[positions[s]].exit_price =
                         Some(candle.close + (candle.close \div Scale) * slippage)
                    /\ ~IsNone(trades'[positions[s]].pnl_usdt)
       /\ pc = "eod_capital" =>
            portfolio'.current_capital =
                portfolio.current_capital + SumClosedPnl(forced_closed, trades)
      ]_vars

\* A sequential run has closed a position at the end of the data and
\* booked its pnl.
C8_Witness ==
    /\ mode = "sequential"
    /\ pc = "return"
    /\ forced_closed # <<>>
    /\ trades[forced_closed[1]].exit_reason = Some("eod")
    /\ portfolio.current_capital # portfolio.initial_capital

\* The symbol has a recorded trade with pnl_percent < -200.
DeepLoss(s) ==
    \E k \in 1..Len(rm.trades_history) :
        /\ rm.trades_history[k].symbol = s
        /\ rm.trades_history[k].pnl_percent < -200 * Scale

\* Number of results recorded for the symbol.
Recorded(s) ==
    Cardinality({k \in 1..Len(rm.trades_history) :
                    rm.trades_history[k].symbol = s})

\* C9 as stated: once a symbol has recorded a trade with pnl_percent <
\* -200, get_position_multiplier returns 0.25, whatever its trade count
\* and win rate.
C9_DeepLossQuarter ==
    \A s \in Symbols :
        DeepLoss(s) => get_position_multiplier(rm.coin_stats, s) = Scale \div 4

\* C9 amended: once a symbol has recorded a trade with pnl_percent < -200,
\* get_position_multiplier returns 0.5 while the symbol has fewer than 3
\* recorded trades and 0.25 from its third trade on, whatever its win rate.
C9_DeepLossQuarterFromThird ==
    \A s \in Symbols :
        DeepLoss(s) =>
            get_position_multiplier(rm.coin_stats, s) =
                IF Recorded(s) >= 3 THEN Scale \div 4 ELSE Scale \div 2

\* A symbol with one loss beyond -200% and three profitable trades.
C9_Witness ==
    \E s \in Symbols :
        /\ DeepLoss(s)
        /\ Recorded(s) = 4
        /\ Val(rm.coin_stats[s]).profitable = 3

\* The claim's condition on the arrays the detectors were given, in whole
\* USDT: the anchor close[idx - W] is not 0 and (max - anchor) / anchor >= T.
Anchor == CloseArr[0] \div Scale
WindowMax == HighArr[IdxMax(HighArr, 0, idx)] \div Scale
PumpExpected ==
    /\ Anchor # 0
    /\ IF Anchor > 0
       THEN (WindowMax - Anchor) * Scale >= pump_threshold * Anchor
       ELSE (WindowMax - Anchor) * Scale <= pump_threshold * Anchor

\* C10: each pump detector emits a candidate iff close[idx - W] # 0 and
\* (max(high[idx-W..idx]) - close[idx-W]) / close[idx-W] >= T, and the
\* candidate has local_high equal to that maximum and local_high_idx equal
\* to the first index of the window that attains it.
C10_DetectorEmitsIff ==
    pc = "probed" =>
        \A d \in {Val(probe).numba, Val(probe).pandas} :
            /\ ~IsNone(d) <=> PumpExpected
            /\ ~IsNone(d) =>
                  /\ Val(d).local_high = WindowMax * Scale
                  /\ Val(d).local_high_idx = IdxMax(HighArr, 0, idx)

\* The Trade objects a list of the store names, field by field.
TradeList(refs, store) == [k \in 1..Len(refs) |-> store[refs[k]]]

\* C11: two sequential runs with the same candles and the same configuration
\* end with the same list of Trades, equal in every field, trade_id included,
\* and with the same sequence of snapshots.
C11_SameInputSameOutput ==
    (pc = "done" /\ ~IsNone(twin)) =>
        /\ TradeList(all_trades, trades)
             = TradeList(Val(twin).all_trades, Val(twin).trades)
        /\ portfolio.equity_history = Val(twin).portfolio.equity_history

\* The Trades of symbol s that its worker returned.
WorkerTrades(s) == IF s \in 1..Len(results) THEN TradeList(results[s], trades) ELSE <<>>

\* C12: in parallel mode a failure raised while simulating one symbol does
\* not end the run: the run completes, and its aggregate holds the Trades that
\* the worker of every symbol that did not fail returned.
C12_FailureIsContained ==
    mode = "parallel" =>
        /\ pc # "raised"
        /\ pc = "done" =>
              \A s \in Symbols \ fault :
                  \A k \in 1..Len(WorkerTrades(s)) :
                      WorkerTrades(s)[k] \in Range(TradeList(all_trades, trades))

C14_SameMultiplier ==
    (mode = "risk" /\ ~IsNone(probe)) =>
        \A s \in Symbols :
            get_position_multiplier(rm.coin_stats, s) = bot_get_position_multiplier(Val(probe).coin_stats, s)

\* Both classes have seen MaxResults results, at least three of them of one
\* symbol whose worst loss is exactly -200%.
C14_Witness ==
    /\ mode = "risk"
    /\ ~IsNone(probe)
    /\ Len(rm.trades_history) = MaxResults
    /\ \E s \in Symbols :
          /\ ~IsNone(Val(probe).coin_stats[s])
          /\ Val(Val(probe).coin_stats[s]).trades >= 3
          /\ Val(Val(probe).coin_stats[s]).max_loss = -200 * Scale
          /\ bot_get_position_multiplier(Val(probe).coin_stats, s) = Scale \div 2

\* The five exit fields of a Trade.
ExitFields(t) == <<t.exit_time, t.exit_idx, t.exit_price, t.exit_reason, t.pnl_usdt>>

\* C15: every Trade has exit_time, exit_idx, exit_price, exit_reason and
\* pnl_usdt either all unset or all set, and an exit_reason that is set is
\* "tp", "sl" or "eod".
C15_ExitFieldsTogether ==
    \A k \in 1..Len(trades) :
        \/ \A f \in 1..5 : IsNone(ExitFields(trades[k])[f])
        \/ /\ \A f \in 1..5 : ~IsNone(ExitFields(trades[k])[f])
           /\ Val(trades[k].exit_reason) \in {"tp", "sl", "eod"}

\* A Trade closed by its stop or its take profit beside one with no exit.
C15_Witness ==
    /\ \E k \in 1..Len(trades) : IsNone(trades[k].exit_reason)
    /\ \E k \in 1..Len(trades) : ~IsNone(trades[k].exit_reason) /\ Val(trades[k].exit_reason) \in {"sl", "tp"}

\* C16: when the entry bar has high >= sl_price, the Trade handed to
\* open_position is closed on that bar: exit_reason "sl", exit_idx =
\* entry_idx, exit_price = sl_price * (1 + slippage), its pnl computed and
\* reported to the RiskManager.
C16_ImmediateSlCloses ==
    (pc = "opened" /\ candle.high >= trades[1].sl_price) =>
        /\ trades[1].exit_reason = Some("sl")
        /\ trades[1].exit_idx = Some(trades[1].entry_idx)
        /\ trades[1].exit_price = Some(WithSlippage(trades[1].sl_price))
        /\ ~IsNone(trades[1].pnl_usdt)
        /\ Len(rm.trades_history) = 1
        /\ Some(rm.trades_history[1].pnl_usdt) = trades[1].pnl_usdt

\* The entry bar breaches the stop or the take profit of the Trade handed
\* to open_position.
EntryBreach == candle.high >= trades[1].sl_price \/ candle.low <= trades[1].tp_price

\* C17: a Trade whose entry bar has high >= sl_price or low <= tp_price is
\* not inserted into positions and open_position returns failure; any other
\* Trade becomes the resident position of its symbol.
C17_ResidentIffNoBreach ==
    pc = "opened" =>
        /\ EntryBreach => (positions[sym] = 0 /\ ~Val(opened).success)
        /\ ~EntryBreach => (positions[sym] = 1 /\ Val(opened).success)

\* open_position has refused a Trade whose entry bar reaches its take profit
\* and not its stop.
C17_Witness ==
    /\ pc = "opened"
    /\ candle.low <= trades[1].tp_price
    /\ candle.high < trades[1].sl_price
    /\ positions[sym] = 0
    /\ Val(opened).reason = "tp_immediate"

\* C18: when one bar has both high >= sl_price and low <= tp_price for a
\* Trade, be it the entry bar or a later bar on which the Trade is resident,
\* the outcome recorded on the Trade is "sl".
C18_StopBeforeTakeProfit ==
    (/\ pc \in {"opened", "checked"}
     /\ candle.high >= trades[1].sl_price
     /\ candle.low <= trades[1].tp_price) =>
        trades[1].exit_reason = Some("sl")

\* What check_positions does to the resident position of symbol s on the
\* bar `candle` with index idx.
CheckRule(s) ==
    /\ candle.high >= trades[positions[s]].sl_price =>
          /\ positions'[s] = 0
          /\ trades'[positions[s]].exit_reason = Some("sl")
          /\ trades'[positions[s]].exit_idx = Some(idx)
          /\ trades'[positions[s]].exit_price = Some(trades[positions[s]].sl_price + (trades[positions[s]].sl_price \div Scale) * slippage)
    /\ (candle.high < trades[positions[s]].sl_price /\ candle.low <= trades[positions[s]].tp_price) =>
          /\ positions'[s] = 0
          /\ trades'[positions[s]].exit_reason = Some("tp")
          /\ trades'[positions[s]].exit_idx = Some(idx)
          /\ trades'[positions[s]].exit_price = Some(trades[positions[s]].tp_price + (trades[positions[s]].tp_price \div Scale) * slippage)
    /\ (candle.high < trades[positions[s]].sl_price /\ candle.low > trades[positions[s]].tp_price) =>
          /\ positions'[s] = positions[s]
          /\ trades'[positions[s]] = trades[positions[s]]

\* C19: check_positions closes a resident position on the first bar that has
\* high >= sl_price or low <= tp_price, with exit_idx that bar and exit_price
\* sl_price * (1 + slippage) resp. tp_price * (1 + slippage); on any other
\* bar the position stays resident and its Trade is unchanged.
C19_ClosedOnFirstBreach ==
    [][(pc = "check" /\ pc' # "check") =>
          \A s \in Symbols : positions[s] # 0 => CheckRule(s)]_vars

\* A position that stayed resident over a bar and was stopped on a later one.
C19_Witness ==
    \E k \in 1..Len(trades) :
        /\ trades[k].exit_reason = Some("sl")
        /\ Val(trades[k].exit_idx) > trades[k].entry_idx + 1

\* On the bar before, the symbol's entry had stall_counter >= stall_bars and
\* the close was at or below its tp_price; this bar brought no high above
\* its local_high.
BlockedBefore(s) ==
    /\ ~IsNone(watchlist[s])
    /\ Val(watchlist[s]).stall_counter > stall_bars
    /\ Len(hist) >= 2
    /\ CloseArr[idx - 1] <= TpPrice(Val(watchlist[s]).local_high)

\* C20: an entry that had stall_counter >= stall_bars on a bar with close <=
\* local_high * (1 - tp_percent) stays on the watchlist and is not offered
\* for entry on a later bar, as long as no bar has high > local_high.
C20_BlockedUntilNewHigh ==
    pc = "entries" => \A s \in Symbols : BlockedBefore(s) => ~InReady(s)

\* C21: a symbol that is on the watchlist is not re-added: the step that
\* runs the pump detector leaves an existing entry as it is (same local_high,
\* stall_counter and added_time_idx).
C21_NoReAdd ==
    [][pc = "scan" =>
          \A s \in Symbols :
              ~IsNone(watchlist[s]) =>
                  /\ ~IsNone(watchlist'[s])
                  /\ Val(watchlist'[s]).local_high = Val(watchlist[s]).local_high
                  /\ Val(watchlist'[s]).stall_counter = Val(watchlist[s]).stall_counter
                  /\ Val(watchlist'[s]).added_time_idx = Val(watchlist[s]).added_time_idx]_vars

\* The symbol's entry has reached its timeout on the bar idx.
TimedOut(s) ==
    /\ ~IsNone(watchlist[s])
    /\ idx - Val(watchlist[s]).added_time_idx >= watchlist_timeout

\* C22: update_watchlist at bar idx removes every entry with idx -
\* added_time_idx >= watchlist_timeout, whatever the bar's high, and does not
\* return it as ready on that bar.
C22_TimeoutRemoves ==
    [][pc = "update" =>
          \A s \in Symbols :
              TimedOut(s) =>
                  /\ IsNone(watchlist'[s])
                  /\ \A k \in 1..Len(ready_items') : ready_items'[k].symbol # s]_vars

\* update_watchlist is called on a bar where an entry that was ready on the
\* bar before has reached its timeout.
C22_Witness ==
    /\ pc = "update"
    /\ TimedOut(sym)
    /\ Val(watchlist[sym]).stall_counter >= stall_bars
    /\ InReady(sym)

\* The Trades of the store constructed on the bar idx for the symbol.
BuiltNow(store, s) ==
    {k \in 1..Len(store) : store[k].symbol = s /\ store[k].entry_idx = idx}

\* C23: no Trade is constructed on a bar whose close is at or below
\* local_high * (1 - tp_percent): every Trade the entry step constructs has
\* the close of its entry bar above its tp_price.
C23_EntryAboveTakeProfit ==
    [][pc = "entries" =>
          \A k \in (Len(trades) + 1)..Len(trades') :
              /\ trades'[k].entry_idx = idx
              /\ trades'[k].tp_price = Mul(trades'[k].local_high, Scale - tp_percent)
              /\ candle.close > trades'[k].tp_price]_vars

\* The entry step has constructed a Trade for a ready entry, on a bar whose
\* close is above the Trade's tp_price, beside a Trade of an earlier bar.
C23_Witness ==
    /\ pc = "check"
    /\ InReady(sym)
    /\ \E k \in BuiltNow(trades, sym) : candle.close > trades[k].tp_price
    /\ \E k \in 1..Len(trades) : trades[k].entry_idx < idx

\* The symbols of the Trades that the step adds to the store.
BuiltFor(before, after) ==
    {after[k].symbol : k \in (Len(before) + 1)..Len(after)}

\* C24: when the entry step constructs a Trade for a ready entry, the
\* symbol's watchlist entry is gone after the step, whether open_position
\* accepted the Trade or not; the entry of a symbol for which no Trade was
\* constructed is left as it was.
C24_EntryLeavesWatchlist ==
    [][pc = "entries" =>
          \A s \in Symbols :
              IF s \in BuiltFor(trades, trades')
              THEN IsNone(watchlist'[s])
              ELSE watchlist'[s] = watchlist[s]]_vars

\* open_position has rejected the Trade constructed on this bar, and the
\* symbol is off the watchlist.
C24_Witness ==
    /\ pc = "check"
    /\ ~IsNone(opened)
    /\ ~Val(opened).success
    /\ trades[Val(opened).ref].symbol = sym
    /\ trades[Val(opened).ref].entry_idx = idx
    /\ positions[sym] = 0
    /\ IsNone(watchlist[sym])

\* Number of profitable results recorded for the symbol.
Wins(s) ==
    Cardinality({k \in 1..Len(rm.trades_history) :
                    /\ rm.trades_history[k].symbol = s
                    /\ rm.trades_history[k].pnl_percent > 0})

\* C25: get_position_multiplier returns what the first applicable rule
\* gives, on the results recorded for the symbol: 0.5 with fewer than 3
\* results (none included); 0.25 if the worst pnl_percent is below -200;
\* 0.5 if profitable / trades < 0.7; otherwise 1.0.
C25_FirstRuleApplies ==
    \A s \in Symbols :
        get_position_multiplier(rm.coin_stats, s) =
            IF Recorded(s) < 3 THEN Scale \div 2
            ELSE IF DeepLoss(s) THEN Scale \div 4
            ELSE IF 10 * Wins(s) < 7 * Recorded(s) THEN Scale \div 2
            ELSE Scale

\* One symbol has three results, no loss beyond -200% and two winners (the
\* win rate rule decides); the other has one result, a loss beyond -200%
\* (the count rule decides).
C25_Witness ==
    \E s \in Symbols, o \in Symbols :
        /\ Recorded(s) = 3 /\ ~DeepLoss(s) /\ Wins(s) = 2
        /\ Recorded(o) = 1 /\ DeepLoss(o)

\* C26: the Trade passed to open_position gets position_size =
\* trade_size_usdt * get_position_multiplier(symbol), the multiplier taken on
\* the results recorded for the symbol before the call, so position_size is
\* 0.25, 0.5 or 1.0 times trade_size_usdt.
C26_SizeFromHistory ==
    [][pc = "open" =>
          /\ trades'[1].position_size * Scale =
                 trade_size_usdt * get_position_multiplier(rm.coin_stats, sym)
          /\ trades'[1].position_size \in
                 {trade_size_usdt \div 4, trade_size_usdt \div 2, trade_size_usdt}]_vars

\* open_position has accepted a Trade of a symbol with three results, one
\* of them a loss beyond -200%, at a quarter of the base size.
C26_Witness ==
    /\ pc = "opened"
    /\ Recorded(sym) = 3
    /\ DeepLoss(sym)
    /\ positions[sym] = 1
    /\ trades[1].position_size = trade_size_usdt \div 4

\* The figures of the claim on the fields of a closed Trade.
CloseFigures(t) ==
    /\ Val(t.fees_total) * Scale = 2 * t.position_size * taker_fee
    /\ Val(t.slippage_total) = t.slippage_entry + Val(t.slippage_exit)
    /\ Val(t.pnl_usdt) =
           MulDiv(t.entry_price - Val(t.exit_price), t.position_size, t.entry_price)
               - Val(t.fees_total) - Val(t.slippage_total)
    /\ Val(t.pnl_percent) = MulDiv(Val(t.pnl_usdt), 100 * Scale, t.position_size)
    /\ Val(t.duration_bars) = Val(t.exit_idx) - t.entry_idx

\* C27: on every closed Trade fees_total = 2 * position_size * taker_fee,
\* slippage_total = slippage_entry + slippage_exit, pnl_usdt = ((entry_price
\* - exit_price) / entry_price) * position_size - fees_total -
\* slippage_total, pnl_percent = pnl_usdt / position_size * 100 and
\* duration_bars = exit_idx - entry_idx.
C27_CloseFigures ==
    \A k \in 1..Len(trades) : IsClosed(trades[k]) => CloseFigures(trades[k])

\* The store holds a Trade closed at its stop, on a bar after its entry,
\* at a loss of more than its position_size.
C27_Witness ==
    \E k \in 1..Len(trades) :
        /\ IsClosed(trades[k])
        /\ trades[k].exit_reason = Some("sl")
        /\ Val(trades[k].duration_bars) > 0
        /\ Val(trades[k].pnl_usdt) < 0 - trades[k].position_size
        /\ Val(trades[k].pnl_percent) < (0 - 100) * Scale

\* The ready entry of the symbol passes the tests of check_entry_conditions
\* on the bar: no resident position and a close above its take profit.
Enterable(s) ==
    /\ InReady(s)
    /\ ~IsNone(watchlist[s])
    /\ positions[s] = 0
    /\ candle.close > Mul(Val(watchlist[s]).local_high, Scale - tp_percent)

Pending(r) ==
    /\ IsClosed(trades[r])
    /\ trades[r].symbol = sym
    /\ \/ pc = "capital" /\ trades[r].exit_idx = Some(idx)
                         /\ trades[r].exit_reason # Some("eod")
       \/ pc = "eod_capital" /\ trades[r].exit_reason = Some("eod")

RECURSIVE SumAppliedPnl(_)
SumAppliedPnl(refs) ==
    IF refs = <<>> THEN 0
    ELSE (IF IsClosed(trades[Head(refs)]) /\ ~Pending(Head(refs))
          THEN Val(trades[Head(refs)].pnl_usdt) ELSE 0)
         + SumAppliedPnl(Tail(refs))

\* C29: in sequential mode update_capital is called once for each closed
\* Trade and only with its close computed: wherever the run stands or a
\* fault ends it, the Trades whose update_capital call is ahead have their
\* exit fields and pnl_usdt set, and current_capital is initial_capital plus
\* the pnl_usdt of every other closed Trade of the portfolio.
C29_LedgerAtEveryPoint ==
    mode = "sequential" =>
        /\ \A r \in Range(portfolio.trades) :
               Pending(r) => ~IsNone(trades[r].pnl_usdt)
        /\ pc = "capital" =>
               \A k \in 1..Len(closed) :
                   \E r \in Range(portfolio.trades) :
                       Pending(r) /\ trades[r].symbol = closed[k][1]
        /\ pc = "eod_capital" =>
               \A k \in 1..Len(forced_closed) : Pending(forced_closed[k])
        /\ portfolio.current_capital =
               portfolio.initial_capital + SumAppliedPnl(portfolio.trades)

\* A sequential run ended by a fault of its second symbol after a stop and
\* a forced close of the first were applied to the capital.
C29_Witness ==
    /\ mode = "sequential"
    /\ pc = "raised"
    /\ portfolio.current_capital # portfolio.initial_capital
    /\ \E a, b \in Range(portfolio.trades) :
         /\ trades[a].exit_reason = Some("sl")
         /\ trades[b].exit_reason = Some("eod")

\* The value of the open Trades of the portfolio at the bar's close: for a
\* short, (entry_price - price) / entry_price * trade_size_usdt each.
RECURSIVE UnrealizedAt(_, _)
UnrealizedAt(refs, price) ==
    IF refs = <<>> THEN 0
    ELSE (IF IsNone(trades[Head(refs)].exit_time)
          THEN MulDiv(trades[Head(refs)].entry_price - price, trade_size_usdt,
                      trades[Head(refs)].entry_price)
          ELSE 0)
         + UnrealizedAt(Tail(refs), price)

\* The snapshot that the step appends.
NewSnapshot == portfolio'.equity_history[Len(portfolio'.equity_history)]

\* C30: a snapshot is recorded on the bars with idx % 4 = 0 and on no
\* other; its equity is the cash plus the value of every open position at
\* the last known price, and its drawdown is (peak - equity) / peak * 100
\* for the peak of capital and equity before the snapshot.
C30_SnapshotEquity ==
    [][pc = "snapshot" =>
          IF idx % 4 = 0
          THEN /\ Len(portfolio'.equity_history) = Len(portfolio.equity_history) + 1
               /\ NewSnapshot.idx = idx
               /\ NewSnapshot.cash = portfolio.current_capital
               /\ NewSnapshot.equity =
                      portfolio.current_capital
                          + UnrealizedAt(portfolio.trades, candle.close)
               /\ NewSnapshot.drawdown =
                      Ratio((portfolio.peak_capital - NewSnapshot.equity) * 100,
                            portfolio.peak_capital)
          ELSE portfolio'.equity_history = portfolio.equity_history]_vars

\* The step that follows each step of a bar in run_on_symbol.
StepAfter ==
    [bar |-> {"scan", "eod"}, scan |-> {"update"}, update |-> {"entries"},
     entries |-> {"check"}, check |-> {"capital"}, capital |-> {"snapshot"},
     snapshot |-> {"bar"}]

\* The Trades of the store that have an exit.
ClosedSet(store) == {k \in 1..Len(store) : ~IsNone(store[k].exit_time)}

\* C31: in run_on_symbol the bars are taken in increasing order from
\* pump_window on, one at a time, and on each bar the steps run in the order
\* detection, watchlist update, entries, TP/SL check, capital update,
\* snapshot: the watchlist, the store of Trades, the capital and the
\* snapshots change in their own step only, and the next bar is taken after
\* the snapshot step of this one.
C31_BarStepsInOrder ==
    [][(mode = "sequential" /\ pc \in DOMAIN StepAfter) =>
          /\ pc' \in StepAfter[pc]
          /\ idx' = IF pc = "bar" /\ pc' = "scan" THEN idx + 1 ELSE idx
          /\ pc' = "scan" => idx' >= pump_window
          /\ watchlist' # watchlist => pc \in {"scan", "update", "entries"}
          /\ Len(trades') # Len(trades) => pc = "entries"
          /\ ClosedSet(trades') # ClosedSet(trades) => pc = "check"
          /\ portfolio'.current_capital # portfolio.current_capital => pc = "capital"
          /\ portfolio'.equity_history # portfolio.equity_history => pc = "snapshot"]_vars

\* The bar idx = 4 is done: the stop of a Trade entered on an earlier bar was
\* hit on it, its loss is in the capital and in the cash of the bar's
\* snapshot.
C31_Witness ==
    /\ mode = "sequential"
    /\ pc = "bar"
    /\ idx = 4
    /\ \E k \in 1..Len(trades) :
         /\ trades[k].exit_idx = Some(idx)
         /\ trades[k].exit_reason = Some("sl")
         /\ trades[k].entry_idx < idx
    /\ portfolio.current_capital < portfolio.initial_capital
    /\ Len(portfolio.equity_history) = 1
    /\ portfolio.equity_history[1].idx = idx
    /\ portfolio.equity_history[1].cash = portfolio.current_capital

\* C32: a zero or negative anchor close[idx - W] yields no candidate, in
\* the detector of sequential mode and in the detector of parallel mode.
C32_NoSignalOnBadAnchor ==
    (pc = "probed" /\ CloseArr[0] <= 0) =>
        /\ IsNone(Val(probe).numba)
        /\ IsNone(Val(probe).pandas)

\* C33: after any sequence of on_trade_result calls trades_history holds
\* at most 1000 records, and they are the results of the most recent calls
\* in call order.
C33_HistoryIsRecentCalls ==
    mode = "history" =>
        LET h == rm.trades_history
            calls == Val(probe)
        IN  /\ Len(h) <= 1000
            /\ Len(h) = IF Len(calls) < 1000 THEN Len(calls) ELSE 1000
            /\ \A k \in 1..Len(h) : h[k] = calls[Len(calls) - Len(h) + k]

\* One call more than 1000 was made and the list has lost its oldest
\* record: the first record kept is the second call, and the last is a
\* result that differs from the one before it.
C33_Witness ==
    /\ mode = "history"
    /\ Len(Val(probe)) = 1001
    /\ Len(rm.trades_history) = 1000
    /\ rm.trades_history[1] # Val(probe)[1]
    /\ rm.trades_history[1000] # rm.trades_history[998]

\* The closed Trades of the symbol in the returned list, and the ones
\* among them with a gain.
ClosedOf(s) ==
    {k \in 1..Len(symbol_trades) :
        /\ trades[symbol_trades[k]].symbol = s
        /\ IsClosed(trades[symbol_trades[k]])}

GainsOf(s) ==
    {k \in ClosedOf(s) : OrZero(trades[symbol_trades[k]].pnl_percent) > 0}

StatsOf(s) == IF IsNone(rm.coin_stats[s]) THEN NewStats ELSE Val(rm.coin_stats[s])

\* C34: when the run of a symbol is complete, the RiskManager's trade count
\* of the symbol is the number of closed Trades of the symbol in the
\* returned list, and its profitable count the number of those with
\* pnl_percent > 0.
C34_StatsAreRecordedTrades ==
    pc = "return" =>
        /\ StatsOf(sym).trades = Cardinality(ClosedOf(sym))
        /\ StatsOf(sym).profitable = Cardinality(GainsOf(sym))

\* C35: in sequential mode, at the end of every bar and after every
\* completed symbol, the RiskManager's current_capital equals the
\* Portfolio's current_capital.
C35_SameCapital ==
    (mode = "sequential" /\ pc \in {"bar", "return", "idle", "done"}) =>
        rm.current_capital = portfolio.current_capital

\* A symbol is complete after a stop and a forced close, and both capitals
\* have moved.
C35_Witness ==
    /\ mode = "sequential"
    /\ pc = "return"
    /\ rm.current_capital # rm.initial_capital
    /\ \E a, b \in Range(portfolio.trades) :
         /\ trades[a].exit_reason = Some("sl")
         /\ trades[b].exit_reason = Some("eod")
         /\ Val(trades[b].pnl_usdt) # 0

\* C36: every constructed Trade has tp_price < entry_price < sl_price; a
\* Trade closed with reason tp has exit_price < entry_price and one closed
\* with reason sl has exit_price > entry_price.
C36_LevelsAroundEntry ==
    \A k \in 1..Len(trades) :
        /\ trades[k].tp_price < trades[k].entry_price
        /\ trades[k].entry_price < trades[k].sl_price
        /\ trades[k].exit_reason = Some("tp") =>
               Val(trades[k].exit_price) < trades[k].entry_price
        /\ trades[k].exit_reason = Some("sl") =>
               Val(trades[k].exit_price) > trades[k].entry_price

\* A Trade was closed at its take profit on a bar after its entry, below
\* its entry price and at a gain.
C36_Witness ==
    \E k \in 1..Len(trades) :
        /\ trades[k].exit_reason = Some("tp")
        /\ Val(trades[k].exit_idx) > trades[k].entry_idx
        /\ Val(trades[k].exit_price) < trades[k].entry_price
        /\ Val(trades[k].pnl_usdt) > 0

\* C37: a Trade of the run's trade lists closed with reason tp or sl has
\* exit_idx > entry_idx; a close on the entry bar (duration_bars = 0) is an
\* eod close.
C37_NoTpSlOnEntryBar ==
    \A r \in RecordedRefs :
        IsClosed(trades[r]) =>
            /\ trades[r].exit_reason \in {Some("tp"), Some("sl")} =>
                   Val(trades[r].exit_idx) > trades[r].entry_idx
            /\ Val(trades[r].duration_bars) = 0 =>
                   trades[r].exit_reason = Some("eod")

\* The returned list holds a Trade entered on the last bar and closed on
\* it by force_close_all, after the per-bar check of that bar left it open.
C37_Witness ==
    /\ pc = "return"
    /\ \E r \in Range(symbol_trades) :
         /\ trades[r].exit_reason = Some("eod")
         /\ trades[r].entry_idx = idx
         /\ Val(trades[r].duration_bars) = 0

\* The Trades of the portfolio that have no exit.
OpenInPortfolio ==
    {k \in 1..Len(portfolio.trades) : IsNone(trades[portfolio.trades[k]].exit_time)}

\* C38: in sequential mode at most one Trade of the portfolio is open at
\* any time, and every snapshot has open_positions_count 0 or 1.
C38_OneOpenPosition ==
    mode = "sequential" =>
        /\ Cardinality(OpenInPortfolio) <= 1
        /\ \A k \in 1..Len(portfolio.equity_history) :
               portfolio.equity_history[k].open_positions_count \in {0, 1}

\* The second symbol of a sequential run has a resident position, and the
\* Trade of the first symbol in the portfolio was closed at its end of data.
C38_Witness ==
    /\ mode = "sequential"
    /\ sym = MaxSymbols
    /\ positions[sym] # 0
    /\ Cardinality(OpenInPortfolio) = 1
    /\ \E r \in Range(portfolio.trades) :
         /\ trades[r].symbol # sym
         /\ trades[r].exit_reason = Some("eod")

\* The fields of a candidate that the claim compares.
Candidate(d) ==
    <<Val(d).local_high, Val(d).local_high_idx, Val(d).pump_percent,
      Val(d).pump_price_start>>

\* C39: on the same arrays, bar index, window and threshold the detector of
\* sequential mode and the detector of parallel mode return the same: both
\* nothing, or candidates with equal local_high, local_high_idx,
\* pump_percent and anchor.
C39_DetectorsAgree ==
    pc = "probed" =>
        /\ IsNone(Val(probe).numba) <=> IsNone(Val(probe).pandas)
        /\ ~IsNone(Val(probe).numba) /\ ~IsNone(Val(probe).pandas) =>
               Candidate(Val(probe).numba) = Candidate(Val(probe).pandas)

\* C40: a parallel run leaves the Backtester's Portfolio as it was
\* constructed: current_capital is initial_capital, and Portfolio.trades
\* and equity_history are empty, whatever the returned Trades gained or
\* lost.
C40_PortfolioUntouched ==
    mode = "parallel" =>
        /\ portfolio.current_capital = portfolio.initial_capital
        /\ portfolio.initial_capital = initial_capital
        /\ portfolio.trades = <<>>
        /\ portfolio.equity_history = <<>>

\* A finished parallel run that returned a Trade closed at a loss and a
\* Trade closed at a gain.
C40_Witness ==
    /\ mode = "parallel"
    /\ pc = "done"
    /\ \E r \in Range(all_trades) : OrZero(trades[r].pnl_usdt) < 0
    /\ \E r \in Range(all_trades) : OrZero(trades[r].pnl_usdt) > 0

====
